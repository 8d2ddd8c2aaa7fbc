----------------------- MODULE VipSubscriptions_proofs -----------------------
(***************************************************************************)
(* Proofs about VipSubscriptions, for any number of players, subscriptions *)
(* and worker processes: the types, ChargedOncePerPeriod, PaidRoleKept,    *)
(* ActiveHoldsRole and AnnouncedOnce, and that VipPromise is implemented.  *)
(***************************************************************************)
EXTENDS VipSubscriptions, TLAPS

\* Every row has its player, and a pass works on rows that exist.
RowsExist ==
    /\ \A s \in Subs : status[s] # "absent" => owner[s] \in Players
    /\ \A w \in Renewers : \A d \in due[w] : status[d.sub] # "absent"

\* What an expiry pass has read is over.
FoundIsOver == \A x \in Expirers : \A e \in found[x] : e.expiresAt <= now

\* PaidRoleKept, and that it is a role of the catalogue.
PaidTierRole ==
    \A p \in Players : now < paid[p] => role[p] \in TierRoles /\ roleExpiresAt[p] = paid[p]

Kept(p) == p \in steady /\ Subscribed(p)

\* Of a player whose subscription is active, an expiry pass has at most read a
\* term that ended before the present one.
FoundIsStale ==
    \A x \in Expirers : \A e \in found[x] :
        Kept(e.player) => e.expiresAt < roleExpiresAt[e.player]

Types == TypeOK /\ RowsExist

-----------------------------------------------------------------------------
(* The sale of a period *)

\* What planVipGrant and applyVipGrant do to the player: the balance stays a
\* natural number, the role is the tier's, and its expiry moves by a period at
\* least, to a time after the sale.
LEMMA Sale ==
    ASSUME GrantTypeOK, NEW p \in Players, NEW r \in TierRoles, NEW t \in Nat,
           Plan(p, r) = "ok", ApplyVipGrant(p, r, t)
    PROVE  /\ balance' \in [Players -> Nat]
           /\ role' = [role EXCEPT ![p] = r]
           /\ roleExpiresAt' = [roleExpiresAt EXCEPT ![p] = Later(p, r, t)]
           /\ paid' = [paid EXCEPT ![p] = Later(p, r, t)]
           /\ Later(p, r, t) \in Nat /\ Later(p, r, t) >= t + Days
           /\ role[p] \in {NoRole, r}
           /\ role[p] = r => Later(p, r, t) >= roleExpiresAt[p] + Days
           /\ r \in Roles
<1>1. balance[p] \in Nat /\ balance[p] >= Price /\ Price \in Nat /\ Days \in Nat
  BY GrantAssumption DEF GrantTypeOK, Plan
<1>2. balance' \in [Players -> Nat]
  BY <1>1 DEF GrantTypeOK, ApplyVipGrant
<1>3. roleExpiresAt[p] \in Nat
  BY Zenon DEF GrantTypeOK
<1>4. Later(p, r, t) \in Nat /\ Later(p, r, t) >= t + Days
  BY <1>1, <1>3 DEF Later
<1>5. role[p] = r => Later(p, r, t) >= roleExpiresAt[p] + Days
  BY <1>1, <1>3 DEF Later
<1>6. role[p] \in {NoRole, r}
  BY Zenon, <1>1 DEF Plan
<1> QED
  BY Zenon, <1>2, <1>4, <1>5, <1>6 DEF ApplyVipGrant, Roles

\* The types after a sale, for the actions that make one.
LEMMA SaleTypes ==
    ASSUME GrantTypeOK, NEW p \in Players, NEW r \in TierRoles, NEW t \in Nat,
           Plan(p, r) = "ok", ApplyVipGrant(p, r, t)
    PROVE  /\ balance' \in [Players -> Nat]
           /\ role' \in [Players -> Roles \cup {NoRole}]
           /\ roleExpiresAt' \in [Players -> Nat]
           /\ paid' \in [Players -> Nat]
<1>1. /\ balance' \in [Players -> Nat] /\ role' = [role EXCEPT ![p] = r]
      /\ roleExpiresAt' = [roleExpiresAt EXCEPT ![p] = Later(p, r, t)]
      /\ paid' = [paid EXCEPT ![p] = Later(p, r, t)] /\ Later(p, r, t) \in Nat /\ r \in Roles
  BY SMT, Sale
<1>2. /\ role \in [Players -> Roles \cup {NoRole}]
      /\ roleExpiresAt \in [Players -> Nat] /\ paid \in [Players -> Nat]
  BY Zenon DEF GrantTypeOK
<1> QED BY ONLY Zenon, <1>1, <1>2

-----------------------------------------------------------------------------
(* Types *)

USE DEF player, catalogue, seeding, history, subscription, renewal, grants

\* Of the routes, the administrators and the seed reward, every one keeps the
\* types of the tables it writes.
LEMMA GrantTypes ==
    ASSUME GrantTypeOK, GrantNext
    PROVE  GrantTypeOK'
<1> USE GrantAssumption
<1>1. ASSUME NEW p \in Players, ResolveTier(p) PROVE GrantTypeOK'
  BY Zenon, <1>1 DEF GrantTypeOK, ResolveTier
<1>2. ASSUME NEW p \in Players, Purchase(p) PROVE GrantTypeOK'
  <2>1. cart[p] \in TierRoles /\ now \in Nat
    BY <1>2 DEF GrantTypeOK, Purchase
  <2>2. CASE Plan(p, cart[p]) = "ok" /\ ApplyVipGrant(p, cart[p], now)
    BY Zenon, <1>2, <2>1, <2>2, SaleTypes DEF GrantTypeOK, Purchase
  <2>3. CASE UNCHANGED <<player, paid>>
    BY Zenon, <1>2, <2>3 DEF GrantTypeOK, Purchase
  <2> QED
    BY Zenon, <1>2, <2>2, <2>3 DEF Purchase
<1>3. ASSUME NEW p \in Players, SeedTimeChanges(p) PROVE GrantTypeOK'
  BY <1>3 DEF GrantTypeOK, SeedTimeChanges, Edit
<1>4. ASSUME NEW p \in Players, NEW a \in {-Price, Price}, AdjustBonus(p, a) PROVE GrantTypeOK'
  BY <1>4 DEF GrantTypeOK, AdjustBonus, Edit
<1>5. ASSUME NEW p \in Players, NEW r \in Roles \cup {NoRole}, NEW term \in Terms, AssignRole(p, r, term)
      PROVE GrantTypeOK'
  BY <1>5 DEF GrantTypeOK, AssignRole, Edit, Null
<1>6. ASSUME NEW r \in TierRoles, UpdateTier(r) PROVE GrantTypeOK'
  BY <1>6 DEF GrantTypeOK, UpdateTier, Edit
<1>7. ASSUME NEW r \in Roles, NEW access \in BOOLEAN, UpdateRole(r, access) PROVE GrantTypeOK'
  BY <1>7 DEF GrantTypeOK, UpdateRole, Edit
<1>8. ASSUME SeedSnapshot PROVE GrantTypeOK'
  BY Zenon, <1>8 DEF GrantTypeOK, SeedSnapshot
<1>9. ASSUME SeedReconcile PROVE GrantTypeOK'
  BY Zenon, <1>9 DEF GrantTypeOK, SeedReconcile, Null, Roles
<1>10. ASSUME Clock PROVE GrantTypeOK'
  BY <1>10 DEF GrantTypeOK, Clock
<1> QED
  BY Zenon, <1>1, <1>2, <1>3, <1>4, <1>5, <1>6, <1>7, <1>8, <1>9, <1>10 DEF GrantNext

\* A step of the routes, the administrators or the seed reward.
GrantStep == GrantNext /\ UNCHANGED <<subscription, renewal, found, faults>>

\* What a renewal pass works on is a row of a player, and the tier's role.
LEMMA RowOfPass ==
    ASSUME Types, NEW w \in Renewers, NEW d \in due[w]
    PROVE  /\ d \in DueRows /\ d.sub \in Subs /\ d.role \in TierRoles /\ d.dueAt \in Nat
           /\ owner[d.sub] \in Players /\ status[d.sub] # "absent"
           /\ passNow[w] \in Nat
<1>1. d \in DueRows /\ passNow[w] \in Nat
  BY Zenon DEF Types, TypeOK
<1> QED
  BY Zenon, <1>1 DEF Types, RowsExist, DueRows

\* The types of Settled.
LEMMA SettledTypes ==
    ASSUME Types, NEW w \in Renewers, NEW d \in due[w], Settled(w, d)
    PROVE  /\ passNow' \in [Renewers -> Nat]
           /\ due' \in [Renewers -> SUBSET DueRows]
           /\ stage' \in [Renewers -> {"charge", "expire", "notify"}]
           /\ \A v \in Renewers : due'[v] \subseteq due[v]
BY Zenon DEF Types, TypeOK, Settled, Null

\* Creating a subscription keeps the types: Lead is at most a period.
LEMMA CreateTypes ==
    ASSUME Types, NEW p \in Players, NEW s \in Subs, CreateSubscription(p, s)
    PROVE  Types'
<1> USE GrantAssumption, SubscriptionAssumption
<1>1. cart[p] \in TierRoles /\ now \in Nat /\ GrantTypeOK
  BY DEF Types, TypeOK, GrantTypeOK, CreateSubscription
<1>2. CASE /\ Plan(p, cart[p]) = "ok" /\ ApplyVipGrant(p, cart[p], now)
           /\ status' = [status EXCEPT ![s] = "active"]
           /\ owner' = [owner EXCEPT ![s] = p]
           /\ nextRenewalAt' = [nextRenewalAt EXCEPT ![s] = Later(p, cart[p], now) - Lead]
           /\ firstAt' = [firstAt EXCEPT ![s] = Later(p, cart[p], now) - Lead]
           /\ charges' = [charges EXCEPT ![s] = 1]
           /\ steady' = IF cart[p] = tierRole THEN steady \cup {p} ELSE steady \ {p}
  <2>1. Later(p, cart[p], now) - Lead \in Nat
    <3>1. Later(p, cart[p], now) \in Nat /\ Later(p, cart[p], now) >= now + Days
      BY Zenon, <1>1, <1>2, Sale
    <3> QED BY <1>1, <3>1
  <2>2. GrantTypeOK'
    BY Zenon, <1>1, <1>2, SaleTypes DEF GrantTypeOK, CreateSubscription
  <2>3. TypeOK'
    BY Zenon, <1>2, <2>1, <2>2 DEF Types, TypeOK, CreateSubscription
  <2>4. RowsExist'
    BY <1>2 DEF Types, TypeOK, RowsExist, CreateSubscription
  <2> QED BY Zenon, <2>3, <2>4 DEF Types
<1>3. CASE UNCHANGED <<player, paid, status, owner, nextRenewalAt, firstAt, charges, steady>>
  BY Zenon, <1>1, <1>3 DEF Types, TypeOK, GrantTypeOK, RowsExist, CreateSubscription
<1> QED
  BY Zenon, <1>2, <1>3 DEF CreateSubscription

\* A renewal's charge keeps the types.
LEMMA ChargeTypes ==
    ASSUME Types, NEW w \in Renewers, NEW d \in due[w], ChargeRenewal(w, d)
    PROVE  Types'
<1> USE GrantAssumption
<1> DEFINE p == owner[d.sub]
           refused == d.role \in panel \/ Plan(p, d.role) # "ok"
<1>1. /\ d.sub \in Subs /\ d.role \in TierRoles /\ d.dueAt \in Nat
      /\ p \in Players /\ passNow[w] \in Nat /\ GrantTypeOK
  BY Zenon, RowOfPass DEF Types, TypeOK
<1>2. CASE refused /\ stage' = [stage EXCEPT ![w] = "expire"]
           /\ UNCHANGED <<player, paid, nextRenewalAt, charges, passNow, due>>
  BY Zenon, <1>2 DEF Types, TypeOK, GrantTypeOK, RowsExist, ChargeRenewal
<1>3. CASE /\ ~ refused /\ ApplyVipGrant(p, d.role, passNow[w])
           /\ nextRenewalAt' = [nextRenewalAt EXCEPT ![d.sub] = d.dueAt + Days]
           /\ charges' = [charges EXCEPT ![d.sub] = @ + 1]
           /\ Settled(w, d)
  <2>1. GrantTypeOK'
    BY Zenon, <1>1, <1>3, SaleTypes DEF GrantTypeOK, ChargeRenewal
  <2>2. TypeOK'
    BY <1>1, <1>3, <2>1, SettledTypes DEF Types, TypeOK, ChargeRenewal
  <2>3. RowsExist'
    BY Zenon, <1>3, SettledTypes DEF Types, RowsExist, ChargeRenewal
  <2> QED BY Zenon, <2>2, <2>3 DEF Types
<1>4. CASE Settled(w, d) /\ UNCHANGED <<player, paid, nextRenewalAt, charges>>
  <2>1. TypeOK'
    BY Zenon, <1>4, SettledTypes DEF Types, TypeOK, GrantTypeOK, ChargeRenewal
  <2>2. RowsExist'
    BY Zenon, <1>4, SettledTypes DEF Types, RowsExist, ChargeRenewal
  <2> QED BY Zenon, <2>1, <2>2 DEF Types
<1> QED
  BY Zenon, <1>2, <1>3, <1>4 DEF ChargeRenewal

\* The failures counted stay within their bound.
LEMMA FaultTypes == ASSUME faults \in 0..MaxFaults, Fault PROVE faults' \in 0..MaxFaults
BY SMT, SubscriptionAssumption DEF Fault

\* Every step keeps the types.
LEMMA StepTypes ==
    ASSUME Types, [Next]_vars
    PROVE  Types'
<1> USE GrantAssumption, SubscriptionAssumption
<1>1. CASE GrantStep
  <2>1. GrantTypeOK'
    BY Zenon, <1>1, GrantTypes DEF GrantStep, Types, TypeOK
  <2> QED BY Zenon, <1>1, <2>1 DEF GrantStep, Types, TypeOK, RowsExist
<1>2. ASSUME NEW s \in Subs, CancelSubscription(s) PROVE Types'
  BY <1>2 DEF Types, TypeOK, GrantTypeOK, RowsExist, CancelSubscription
<1>3. ASSUME NEW s \in Subs, NEW p \in Players, CreateSubscription(p, s) PROVE Types'
  BY Zenon, <1>3, CreateTypes
<1>4. ASSUME NEW w \in Renewers, FindDue(w) PROVE Types'
  <2>1. tierRole \in TierRoles /\ now \in Nat
    BY DEF Types, TypeOK, GrantTypeOK
  <2> DEFINE rows == {[sub |-> s, role |-> tierRole, dueAt |-> nextRenewalAt[s]] :
                        s \in {x \in Subs : DueAt(x)}}
  <2>2. rows \subseteq DueRows /\ \A d \in rows : status[d.sub] # "absent"
    BY <2>1 DEF Types, TypeOK, DueRows, DueAt
  <2>3. due' = [due EXCEPT ![w] = rows]
    BY Zenon, <1>4 DEF FindDue
  <2> HIDE DEF rows
  <2>4. TypeOK'
    BY SMTT(30), <1>4, <2>1, <2>2, <2>3 DEF Types, TypeOK, GrantTypeOK, FindDue
  <2>5. RowsExist'
    BY SMTT(30), <1>4, <2>2, <2>3 DEF Types, TypeOK, RowsExist, FindDue
  <2> QED BY Zenon, <2>4, <2>5 DEF Types
<1>5. ASSUME NEW w \in Renewers, NEW d \in due[w], ChargeRenewal(w, d) PROVE Types'
  BY Zenon, <1>5, ChargeTypes
<1>6. ASSUME NEW w \in Renewers, NEW d \in due[w], ExpireSubscription(w, d) PROVE Types'
  <2>1. CASE UNCHANGED <<passNow, due>> /\ status' = [status EXCEPT ![d.sub] = "expired"]
                /\ stage' = [stage EXCEPT ![w] = "notify"]
    BY Zenon, <1>6, <2>1, RowOfPass DEF Types, TypeOK, GrantTypeOK, RowsExist, ExpireSubscription
  <2>2. CASE Settled(w, d) /\ UNCHANGED status
    BY Zenon, <1>6, <2>2, SettledTypes DEF Types, TypeOK, GrantTypeOK, RowsExist, ExpireSubscription
  <2> QED BY Zenon, <1>6, <2>1, <2>2 DEF ExpireSubscription
<1>7. ASSUME NEW w \in Renewers, NEW d \in due[w], NotifyExpired(w, d) PROVE Types'
  <2>1. d.sub \in Subs
    BY Zenon, RowOfPass
  <2>2. alerts' \in [Subs -> Nat]
    <3>1. alerts \in [Subs -> Nat]
      BY Zenon DEF Types, TypeOK
    <3>2. alerts' = [alerts EXCEPT ![d.sub] = alerts[d.sub] + 1]
      BY Zenon, <1>7 DEF NotifyExpired
    <3>3. alerts[d.sub] + 1 \in Nat
      <4>1. alerts[d.sub] \in Nat BY ONLY Zenon, <2>1, <3>1
      <4> QED BY <4>1
    <3> QED BY Zenon, <3>1, <3>2, <3>3
  <2>3. TypeOK'
    BY Zenon, <1>7, <2>2, SettledTypes DEF Types, TypeOK, GrantTypeOK, NotifyExpired
  <2>4. RowsExist'
    BY Zenon, <1>7, SettledTypes DEF Types, RowsExist, NotifyExpired
  <2> QED BY Zenon, <2>3, <2>4 DEF Types
<1>8. ASSUME NEW w \in Renewers, NEW d \in due[w], RowFails(w, d) PROVE Types'
  <2>1. faults' \in 0..MaxFaults
    BY Zenon, <1>8, FaultTypes DEF Types, TypeOK, RowFails
  <2> QED BY Zenon, <1>8, <2>1, SettledTypes DEF Types, TypeOK, GrantTypeOK, RowsExist, RowFails
<1>9. ASSUME NEW x \in Expirers, FindExpired(x) PROVE Types'
  <2> DEFINE rows == {[player |-> p, role |-> role[p], expiresAt |-> roleExpiresAt[p]] :
                        p \in {y \in Players : Expired(y)}}
  <2>1. rows \subseteq ExpiredRows
    BY SMTT(30) DEF Types, TypeOK, GrantTypeOK, ExpiredRows, Expired
  <2>2. found' = [found EXCEPT ![x] = rows]
    BY Zenon, <1>9 DEF FindExpired
  <2> HIDE DEF rows
  <2> QED
    BY Zenon, <1>9, <2>1, <2>2 DEF Types, TypeOK, GrantTypeOK, RowsExist, FindExpired
<1>10. ASSUME NEW x \in Expirers, ClearExpired(x) PROVE Types'
  BY Zenon, <1>10 DEF Types, TypeOK, GrantTypeOK, RowsExist, ClearExpired, Null
<1>11. CASE WorkerCrash
  <2>1. faults' \in 0..MaxFaults
    BY Zenon, <1>11, FaultTypes DEF Types, TypeOK, WorkerCrash
  <2>2. /\ due' \in [Renewers -> SUBSET DueRows] /\ passNow' \in [Renewers -> Nat]
        /\ stage' \in [Renewers -> {"charge", "expire", "notify"}]
        /\ found' \in [Expirers -> SUBSET ExpiredRows]
        /\ \A w \in Renewers : due'[w] \subseteq due[w]
    <3>1. /\ due \in [Renewers -> SUBSET DueRows] /\ passNow \in [Renewers -> Nat]
          /\ stage \in [Renewers -> {"charge", "expire", "notify"}]
          /\ found \in [Expirers -> SUBSET ExpiredRows] /\ Null \in Nat
      BY Zenon DEF Types, TypeOK, Null
    <3>2. CASE UNCHANGED found
      BY ONLY ZenonT(60), <1>11, <3>1, <3>2 DEF WorkerCrash
    <3>3. CASE UNCHANGED renewal
      BY ONLY ZenonT(60), <1>11, <3>1, <3>3 DEF WorkerCrash
    <3> QED BY ONLY Zenon, <1>11, <3>2, <3>3 DEF WorkerCrash
  <2> QED BY Zenon, <1>11, <2>1, <2>2 DEF Types, TypeOK, GrantTypeOK, RowsExist, WorkerCrash
<1>12. CASE UNCHANGED vars
  BY Zenon, <1>12 DEF Types, TypeOK, GrantTypeOK, RowsExist, vars
<1> QED
  BY Zenon, <1>1, <1>2, <1>3, <1>4, <1>5, <1>6, <1>7, <1>8, <1>9, <1>10, <1>11, <1>12
     DEF Next, GrantStep, RenewalStep, ExpiryStep

LEMMA InitTypes == Init => Types
<1> SUFFICES ASSUME Init PROVE Types OBVIOUS
<1>1. GrantTypeOK
  BY GrantAssumption DEF Init, GrantInit, GrantTypeOK, Null
<1>2. TypeOK
  BY <1>1, SubscriptionAssumption DEF Init, TypeOK, Null
<1>3. RowsExist
  BY Zenon DEF Init, RowsExist
<1> QED BY Zenon, <1>2, <1>3 DEF Types

\* bonus_balance is never overdrawn, and every table and pass has its type.
THEOREM TypeCorrect == Spec => []TypeOK
<1>1. Types /\ [Next]_vars => Types'
  BY Zenon, StepTypes
<1>2. Types => TypeOK
  BY Zenon DEF Types
<1> QED
  BY InitTypes, <1>1, <1>2, PTL DEF Spec

-----------------------------------------------------------------------------
(* The charges *)

\* Every spend row of a subscription stands for one period, however renewal
\* passes overlap.
THEOREM ChargedOnce == Spec => []ChargedOncePerPeriod
<1> USE GrantAssumption, SubscriptionAssumption
<1>1. Init => ChargedOncePerPeriod
  BY Zenon DEF Init, ChargedOncePerPeriod
<1>2. Types /\ ChargedOncePerPeriod /\ [Next]_vars => ChargedOncePerPeriod'
  <2> SUFFICES ASSUME Types, ChargedOncePerPeriod, [Next]_vars PROVE ChargedOncePerPeriod'
    OBVIOUS
  <2>1. ASSUME NEW s \in Subs, CancelSubscription(s) PROVE ChargedOncePerPeriod'
    BY Zenon, <2>1 DEF Types, TypeOK, ChargedOncePerPeriod, CancelSubscription
  <2>2. ASSUME NEW s \in Subs, NEW p \in Players, CreateSubscription(p, s)
        PROVE  ChargedOncePerPeriod'
    <3> DEFINE t == Later(p, cart[p], now) - Lead
    <3>1. cart[p] \in TierRoles /\ now \in Nat /\ GrantTypeOK
      BY SMTT(30), <2>2 DEF Types, TypeOK, GrantTypeOK, CreateSubscription
    <3>2. CASE /\ nextRenewalAt' = [nextRenewalAt EXCEPT ![s] = t]
               /\ firstAt' = [firstAt EXCEPT ![s] = t]
               /\ charges' = [charges EXCEPT ![s] = 1]
               /\ status' = [status EXCEPT ![s] = "active"]
               /\ Plan(p, cart[p]) = "ok" /\ ApplyVipGrant(p, cart[p], now)
      <4>1. t \in Int
        BY <3>1, <3>2, Sale
      <4>2. t = t + (1 - 1) * Days
        BY <4>1
      <4> HIDE DEF t
      <4> QED BY Zenon, <3>2, <4>1, <4>2 DEF Types, TypeOK, ChargedOncePerPeriod
    <3>3. CASE UNCHANGED <<status, nextRenewalAt, firstAt, charges>>
      BY Zenon, <3>3 DEF ChargedOncePerPeriod
    <3> QED BY Zenon, <2>2, <3>2, <3>3 DEF CreateSubscription
  <2>3. ASSUME NEW w \in Renewers, NEW d \in due[w], ChargeRenewal(w, d)
        PROVE  ChargedOncePerPeriod'
    <3>1. d.sub \in Subs /\ d.dueAt \in Nat /\ status[d.sub] # "absent"
      BY Zenon, RowOfPass
    <3>2. CASE /\ StillDue(d)
               /\ nextRenewalAt' = [nextRenewalAt EXCEPT ![d.sub] = d.dueAt + Days]
               /\ charges' = [charges EXCEPT ![d.sub] = @ + 1]
      <4>1. /\ nextRenewalAt[d.sub] \in Nat /\ firstAt[d.sub] \in Nat
            /\ charges[d.sub] \in Nat /\ Days \in Nat
        BY Zenon, <3>1 DEF Types, TypeOK
      <4>2. d.dueAt + Days = firstAt[d.sub] + ((charges[d.sub] + 1) - 1) * Days
        <5>1. d.dueAt = firstAt[d.sub] + (charges[d.sub] - 1) * Days
          BY Zenon, <3>1, <3>2 DEF StillDue, ChargedOncePerPeriod
        <5> QED BY <3>1, <4>1, <5>1
      <4>3. status' = status /\ firstAt' = firstAt
        BY Zenon, <2>3 DEF ChargeRenewal
      <4>4. ASSUME NEW s \in Subs, status[s] # "absent"
            PROVE  nextRenewalAt'[s] = firstAt[s] + (charges'[s] - 1) * Days
        <5>1. CASE s = d.sub
          BY Zenon, <3>1, <3>2, <4>2, <5>1 DEF Types, TypeOK
        <5>2. CASE s # d.sub
          BY Zenon, <3>2, <4>4, <5>2 DEF Types, TypeOK, ChargedOncePerPeriod
        <5> QED BY Zenon, <5>1, <5>2
      <4> QED BY Zenon, <4>3, <4>4 DEF ChargedOncePerPeriod
    <3>3. CASE UNCHANGED <<nextRenewalAt, charges>>
      BY Zenon, <2>3, <3>3 DEF ChargedOncePerPeriod, ChargeRenewal
    <3> QED BY Zenon, <2>3, <3>2, <3>3 DEF ChargeRenewal
  <2>4. ASSUME NEW w \in Renewers, NEW d \in due[w], ExpireSubscription(w, d)
        PROVE  ChargedOncePerPeriod'
    <3>1. \A s \in Subs : status'[s] # "absent" => status[s] # "absent"
      BY Zenon, <2>4, RowOfPass DEF Types, TypeOK, ExpireSubscription
    <3> QED BY Zenon, <2>4, <3>1 DEF ChargedOncePerPeriod, ExpireSubscription
  <2>5. CASE UNCHANGED <<status, nextRenewalAt, firstAt, charges>>
    BY Zenon, <2>5 DEF ChargedOncePerPeriod
  <2> QED
    BY ZenonT(30), <2>1, <2>2, <2>3, <2>4, <2>5
       DEF Next, RenewalStep, ExpiryStep, FindDue, NotifyExpired, RowFails, FindExpired, ClearExpired,
           WorkerCrash, vars
<1>3. Types /\ [Next]_vars => Types'
  BY Zenon, StepTypes
<1> QED
  BY InitTypes, <1>1, <1>2, <1>3, PTL DEF Spec

-----------------------------------------------------------------------------
(* Roles that have been paid for *)

\* The clock does not go back.
LEMMA ClockStep ==
    ASSUME Types, [Next]_vars
    PROVE  now \in Nat /\ now' \in Nat /\ now <= now'
<1>1. now \in 1..MaxTime /\ MaxTime \in Nat
  BY Zenon, GrantAssumption DEF Types, TypeOK, GrantTypeOK
<1>2. now' = now \/ now' = now + 1
  <2>1. CASE GrantNext
    BY Zenon, <2>1 DEF GrantNext, ResolveTier, Purchase, SeedTimeChanges, AdjustBonus, AssignRole, UpdateTier,
                UpdateRole, SeedSnapshot, SeedReconcile, Clock
  <2>2. ASSUME NEW s \in Subs, CancelSubscription(s) \/ \E p \in Players : CreateSubscription(p, s)
        PROVE  now' = now
    BY ONLY Zenon, <2>2 DEF CancelSubscription, CreateSubscription
  <2>3. ASSUME NEW w \in Renewers, RenewalStep(w) \/ \E d \in due[w] : RowFails(w, d)
        PROVE  now' = now
    BY ONLY Zenon, <2>3 DEF RenewalStep, FindDue, ChargeRenewal, ExpireSubscription, NotifyExpired, RowFails
  <2>4. ASSUME NEW x \in Expirers, ExpiryStep(x)
        PROVE  now' = now
    BY ONLY Zenon, <2>4 DEF ExpiryStep, FindExpired, ClearExpired
  <2>5. WorkerCrash \/ UNCHANGED vars => now' = now
    BY ONLY Zenon DEF WorkerCrash, vars
  <2> QED
    BY Zenon, <2>1, <2>2, <2>3, <2>4, <2>5 DEF Next
<1> QED BY <1>1, <1>2

\* What the expiry passes hold after a step.
LEMMA FoundStep ==
    ASSUME Types, [Next]_vars, NEW x \in Expirers, NEW e \in found'[x]
    PROVE  /\ e.player \in Players
           /\ \/ e \in found[x]
              \/ FindExpired(x) /\ Expired(e.player) /\ e.expiresAt = roleExpiresAt[e.player]
<1>1. e \in ExpiredRows
  BY Zenon, StepTypes DEF Types, TypeOK
<1>2. CASE FindExpired(x)
  <2>1. e \in {[player |-> p, role |-> role[p], expiresAt |-> roleExpiresAt[p]] :
                  p \in {y \in Players : Expired(y)}}
    BY Zenon, <1>2 DEF FindExpired, Types, TypeOK
  <2> QED BY ONLY <1>1, <1>2, <2>1 DEF ExpiredRows
<1>3. CASE ~ FindExpired(x)
  <2>1. found'[x] \subseteq found[x]
    <3>1. CASE found' = found
      BY Zenon, <3>1
    <3>2. ASSUME NEW y \in Expirers, FindExpired(y) PROVE found'[x] \subseteq found[x]
      BY Zenon, <1>3, <3>2 DEF FindExpired, Types, TypeOK
    <3>3. ASSUME NEW y \in Expirers, ClearExpired(y) PROVE found'[x] \subseteq found[x]
      BY Zenon, <3>3 DEF ClearExpired, Types, TypeOK
    <3>4. CASE WorkerCrash
      BY Zenon, <3>4 DEF WorkerCrash, Types, TypeOK
    <3>5. ASSUME NEW s \in Subs, CancelSubscription(s) \/ \E p \in Players : CreateSubscription(p, s)
          PROVE  found' = found
      BY ONLY Zenon, <3>5 DEF CancelSubscription, CreateSubscription
    <3>6. ASSUME NEW w \in Renewers, RenewalStep(w) \/ \E d \in due[w] : RowFails(w, d)
          PROVE  found' = found
      BY ONLY Zenon, <3>6 DEF RenewalStep, FindDue, ChargeRenewal, ExpireSubscription, NotifyExpired, RowFails
    <3>7. UNCHANGED vars => found' = found
      BY ONLY Zenon DEF vars
    <3> QED
      BY Zenon, <3>1, <3>2, <3>3, <3>4, <3>5, <3>6, <3>7 DEF Next, ExpiryStep
  <2> QED BY Zenon, <1>1, <2>1 DEF ExpiredRows
<1> QED BY Zenon, <1>2, <1>3

LEMMA FoundIsOverStep ==
    ASSUME Types, FoundIsOver, [Next]_vars
    PROVE  FoundIsOver'
<1> SUFFICES ASSUME NEW x \in Expirers, NEW e \in found'[x] PROVE e.expiresAt <= now'
  BY Zenon DEF FoundIsOver
<1>1. now \in Nat /\ now' \in Nat /\ now <= now'
  BY Zenon, ClockStep
<1>2. e.expiresAt \in Nat
  BY StepTypes DEF Types, TypeOK, ExpiredRows
<1>3. e.expiresAt <= now
  BY Zenon, FoundStep DEF FoundIsOver, Expired
<1> QED BY ONLY <1>1, <1>2, <1>3

\* A sale keeps PaidTierRole.
LEMMA SalePaid ==
    ASSUME GrantTypeOK, PaidTierRole, NEW p \in Players, NEW r \in TierRoles, NEW t \in Nat,
           Plan(p, r) = "ok", ApplyVipGrant(p, r, t), now' = now
    PROVE  PaidTierRole'
<1>1. /\ role' = [role EXCEPT ![p] = r]
      /\ roleExpiresAt' = [roleExpiresAt EXCEPT ![p] = Later(p, r, t)]
      /\ paid' = [paid EXCEPT ![p] = Later(p, r, t)]
  BY SMTT(30), Sale
<1> QED BY Zenon, <1>1 DEF PaidTierRole, GrantTypeOK

\* No step takes a role away that is paid for, if the seed reward has a role of
\* its own.
LEMMA PaidStep ==
    ASSUME RewardRole \notin TierRoles, Types, FoundIsOver, PaidTierRole, [Next]_vars
    PROVE  PaidTierRole'
<1> USE GrantAssumption
<1>0. GrantTypeOK /\ now \in Nat
  BY DEF Types, TypeOK, GrantTypeOK
<1>1. ASSUME NEW p \in Players, Purchase(p) PROVE PaidTierRole'
  <2>1. cart[p] \in TierRoles /\ now' = now
    BY Zenon, <1>0, <1>1 DEF GrantTypeOK, Purchase
  <2>2. CASE Plan(p, cart[p]) = "ok" /\ ApplyVipGrant(p, cart[p], now)
    BY Zenon, <1>0, <2>1, <2>2, SalePaid
  <2>3. CASE UNCHANGED <<player, paid>>
    BY Zenon, <2>1, <2>3 DEF PaidTierRole
  <2> QED BY Zenon, <1>1, <2>2, <2>3 DEF Purchase
<1>2. ASSUME NEW p \in Players, NEW r \in Roles \cup {NoRole}, NEW term \in Terms, AssignRole(p, r, term)
      PROVE  PaidTierRole'
  BY SMTT(30), <1>0, <1>2 DEF PaidTierRole, AssignRole, GrantTypeOK, Null
<1>3. CASE SeedReconcile
  <2> SUFFICES ASSUME NEW p \in Players, now < paid[p]
               PROVE  role'[p] \in TierRoles /\ roleExpiresAt'[p] = paid[p]
    BY Zenon, <1>3 DEF PaidTierRole, SeedReconcile
  <2>1. role[p] \in TierRoles /\ roleExpiresAt[p] = paid[p]
    BY Zenon DEF PaidTierRole
  <2>2. ~ Unchanged(p, NoRole) /\ ~ Unchanged(p, RewardRole)
    BY Zenon, <2>1 DEF Unchanged, Roles
  <2> QED BY Zenon, <1>3, <2>1, <2>2 DEF SeedReconcile
<1>4. CASE Clock
  BY <1>0, <1>4 DEF PaidTierRole, Clock, GrantTypeOK
<1>5. ASSUME NEW s \in Subs, NEW p \in Players, CreateSubscription(p, s) PROVE PaidTierRole'
  <2>1. cart[p] \in TierRoles /\ now' = now
    BY Zenon, <1>0, <1>5 DEF GrantTypeOK, CreateSubscription
  <2>2. CASE Plan(p, cart[p]) = "ok" /\ ApplyVipGrant(p, cart[p], now)
    BY Zenon, <1>0, <2>1, <2>2, SalePaid
  <2>3. CASE UNCHANGED <<player, paid>>
    BY Zenon, <2>1, <2>3 DEF PaidTierRole
  <2> QED BY Zenon, <1>5, <2>2, <2>3 DEF CreateSubscription
<1>6. ASSUME NEW w \in Renewers, NEW d \in due[w], ChargeRenewal(w, d) PROVE PaidTierRole'
  <2>1. d.role \in TierRoles /\ owner[d.sub] \in Players /\ passNow[w] \in Nat
    BY Zenon, RowOfPass
  <2>2. now' = now
    BY Zenon, <1>6 DEF ChargeRenewal
  <2>3. CASE Plan(owner[d.sub], d.role) = "ok" /\ ApplyVipGrant(owner[d.sub], d.role, passNow[w])
    BY Zenon, <1>0, <2>1, <2>2, <2>3, SalePaid
  <2>4. CASE UNCHANGED <<player, paid>>
    BY Zenon, <2>2, <2>4 DEF PaidTierRole
  <2> QED BY Zenon, <1>6, <2>3, <2>4 DEF ChargeRenewal
<1>7. ASSUME NEW x \in Expirers, ClearExpired(x) PROVE PaidTierRole'
  <2> SUFFICES ASSUME NEW p \in Players, now < paid[p]
               PROVE  role'[p] \in TierRoles /\ roleExpiresAt'[p] = paid[p]
    BY Zenon, <1>7 DEF PaidTierRole, ClearExpired
  <2>1. role[p] \in TierRoles /\ roleExpiresAt[p] = paid[p] /\ roleExpiresAt[p] \in Nat
    BY Zenon, <1>0 DEF PaidTierRole, GrantTypeOK
  <2>2. ~ AsFound(x, p)
    <3> SUFFICES ASSUME NEW e \in found[x], e.expiresAt = roleExpiresAt[p] PROVE FALSE
      BY Zenon DEF AsFound
    <3>1. e.expiresAt <= now
      BY Zenon DEF FoundIsOver
    <3> QED BY <1>0, <2>1, <3>1
  <2> QED BY Zenon, <1>7, <2>1, <2>2 DEF ClearExpired
<1>8. CASE UNCHANGED <<now, role, roleExpiresAt, paid>>
  BY Zenon, <1>8 DEF PaidTierRole
<1> QED
  BY ZenonT(60), <1>1, <1>2, <1>3, <1>4, <1>5, <1>6, <1>7, <1>8
     DEF Next, GrantNext, ResolveTier, SeedTimeChanges, AdjustBonus, UpdateTier, UpdateRole, SeedSnapshot,
         CancelSubscription, RenewalStep, FindDue, ExpireSubscription, NotifyExpired, RowFails,
         ExpiryStep, FindExpired, WorkerCrash, vars

\* A role that has been paid for is held until the time it was paid for, if the
\* role of the seed reward is none that a tier is ever pointed at.
THEOREM PaidRole ==
    ASSUME RewardRole \notin TierRoles
    PROVE  Spec => []PaidRoleKept
<1>1. Init => FoundIsOver /\ PaidTierRole
  BY DEF Init, GrantInit, FoundIsOver, PaidTierRole, Null
<1>2. Types /\ FoundIsOver /\ PaidTierRole /\ [Next]_vars => Types' /\ FoundIsOver' /\ PaidTierRole'
  BY Zenon, StepTypes, FoundIsOverStep, PaidStep
<1>3. PaidTierRole => PaidRoleKept
  BY Zenon, GrantAssumption DEF PaidTierRole, PaidRoleKept, Roles
<1> QED
  BY InitTypes, <1>1, <1>2, <1>3, PTL DEF Spec

-----------------------------------------------------------------------------
(* Subscriptions do not lapse *)

KeptInv == ActiveHoldsRole /\ FoundIsStale

\* What ActiveHoldsRole says of the player.
LEMMA KeptHolds ==
    ASSUME Types, ActiveHoldsRole, NEW p \in Players, Kept(p)
    PROVE  /\ role[p] = tierRole /\ tierRole \in TierRoles
           /\ \E s \in Subs : /\ owner[s] = p /\ status[s] = "active"
                             /\ nextRenewalAt[s] + Lead <= roleExpiresAt[p]
BY Zenon DEF ActiveHoldsRole, Kept, Subscribed, Types, TypeOK, GrantTypeOK

\* A step that leaves the role and the expiry of every such player, or moves the
\* expiry on, and makes no subscription active, keeps both facts.
LEMMA KeptCarries ==
    ASSUME Types, Types', KeptInv,
           tierRole' = tierRole \/ steady' = {},
           steady' \subseteq steady, UNCHANGED owner,
           \A s \in Subs : status'[s] = "active" => status[s] = "active",
           \A s \in Subs : nextRenewalAt'[s] = nextRenewalAt[s],
           \A p \in steady' : Subscribed(p) =>
               role'[p] = role[p] /\ roleExpiresAt'[p] >= roleExpiresAt[p],
           \A x \in Expirers : \A e \in found'[x] : e \in found[x] \/ ~ Kept(e.player)
    PROVE  KeptInv'
<1> USE SubscriptionAssumption
<1>0. /\ steady \subseteq Players
      /\ nextRenewalAt \in [Subs -> Nat] /\ roleExpiresAt \in [Players -> Nat]
      /\ roleExpiresAt' \in [Players -> Nat]
      /\ found \in [Expirers -> SUBSET ExpiredRows]
  BY Zenon DEF Types, TypeOK, GrantTypeOK
<1>1. ActiveHoldsRole'
  <2> SUFFICES ASSUME NEW s \in Subs, status'[s] = "active", owner[s] \in steady'
               PROVE  /\ role'[owner[s]] = tierRole'
                      /\ nextRenewalAt'[s] + Lead <= roleExpiresAt'[owner[s]]
    BY Zenon DEF ActiveHoldsRole
  <2>1. status[s] = "active" /\ owner[s] \in steady /\ Subscribed(owner[s])
    BY Zenon DEF Subscribed
  <2>2. role[owner[s]] = tierRole /\ nextRenewalAt[s] + Lead <= roleExpiresAt[owner[s]]
    BY Zenon, <2>1 DEF KeptInv, ActiveHoldsRole
  <2>3. role'[owner[s]] = role[owner[s]] /\ roleExpiresAt'[owner[s]] >= roleExpiresAt[owner[s]]
    BY Zenon, <2>1
  <2>4. /\ owner[s] \in Players /\ nextRenewalAt[s] \in Nat /\ roleExpiresAt[owner[s]] \in Nat
        /\ roleExpiresAt'[owner[s]] \in Nat
    BY Zenon, <1>0, <2>1
  <2>5. tierRole' = tierRole /\ nextRenewalAt'[s] = nextRenewalAt[s]
    OBVIOUS
  <2>6. nextRenewalAt[s] + Lead <= roleExpiresAt'[owner[s]]
    BY <2>2, <2>3, <2>4
  <2> QED BY Zenon, <2>2, <2>3, <2>5, <2>6
<1>2. FoundIsStale'
  <2> SUFFICES ASSUME NEW x \in Expirers, NEW e \in found'[x], Kept(e.player)'
               PROVE  e.expiresAt < roleExpiresAt'[e.player]
    BY Zenon DEF FoundIsStale
  <2>1. Subscribed(e.player) /\ e.player \in steady' /\ Kept(e.player)
    BY Zenon DEF Kept, Subscribed
  <2>2. e \in found[x] /\ e.expiresAt < roleExpiresAt[e.player]
    BY Zenon, <2>1 DEF KeptInv, FoundIsStale
  <2>3. e.expiresAt \in Nat /\ e.player \in Players
    BY ONLY <1>0, <2>2 DEF ExpiredRows
  <2>4. roleExpiresAt'[e.player] >= roleExpiresAt[e.player]
    BY Zenon, <2>1
  <2> QED BY <1>0, <2>2, <2>3, <2>4
<1> QED BY Zenon, <1>1, <1>2 DEF KeptInv

\* A sale to a player whose subscription is active is one of the role held, and
\* moves its expiry by a period.
LEMMA SaleKept ==
    ASSUME Types, ActiveHoldsRole, NEW p \in Players, NEW r \in TierRoles, NEW t \in Nat,
           Plan(p, r) = "ok", ApplyVipGrant(p, r, t), NEW q \in Players, Kept(q)
    PROVE  /\ role'[q] = role[q]
           /\ roleExpiresAt'[q] >= roleExpiresAt[q]
           /\ q = p => roleExpiresAt'[q] >= roleExpiresAt[q] + Days
<1>0. GrantTypeOK /\ roleExpiresAt[q] \in Nat /\ Days \in Nat
  BY Zenon, GrantAssumption DEF Types, TypeOK, GrantTypeOK
<1>1. /\ role' = [role EXCEPT ![p] = r]
      /\ roleExpiresAt' = [roleExpiresAt EXCEPT ![p] = Later(p, r, t)]
      /\ role[p] \in {NoRole, r} /\ Later(p, r, t) \in Nat
      /\ role[p] = r => Later(p, r, t) >= roleExpiresAt[p] + Days
  BY <1>0, Sale
<1>2. role[q] = tierRole /\ tierRole # NoRole
  BY Zenon, KeptHolds, GrantAssumption DEF Roles
<1>3. CASE q = p
  BY <1>0, <1>1, <1>2, <1>3 DEF GrantTypeOK
<1>4. CASE q # p
  BY ONLY SMTT(30), <1>0, <1>1, <1>4 DEF GrantTypeOK
<1> QED BY Zenon, <1>3, <1>4

\* An expiry pass reads no player whose subscription is active.
LEMMA FoundNotKept ==
    ASSUME Types, ActiveHoldsRole, [Next]_vars, NEW x \in Expirers, NEW e \in found'[x]
    PROVE  e \in found[x] \/ ~ Kept(e.player)
<1> SUFFICES ASSUME e.player \in Players, Expired(e.player), Kept(e.player) PROVE FALSE
  BY Zenon, FoundStep
<1>1. PICK s \in Subs : /\ owner[s] = e.player /\ status[s] = "active"
                         /\ nextRenewalAt[s] + Lead <= roleExpiresAt[e.player]
  BY ZenonT(60), KeptHolds
<1>2. nextRenewalAt[s] \in Nat /\ roleExpiresAt[e.player] \in Nat /\ Lead \in Nat /\ Grace \in Nat
  BY GrantAssumption, SubscriptionAssumption DEF Types, TypeOK, GrantTypeOK
<1>3. nextRenewalAt[s] <= roleExpiresAt[e.player] + Grace
  BY <1>1, <1>2
<1>4. role[e.player] = tierRole
  BY Zenon, KeptHolds
<1> QED BY Zenon, <1>1, <1>3, <1>4 DEF Expired, AboutToRenew

\* A new subscription holds its role, and what an expiry pass has read is older
\* than its first period.
LEMMA CreateKept ==
    ASSUME Types, Types', FoundIsOver, KeptInv, NEW p \in Players, NEW s \in Subs,
           CreateSubscription(p, s), ~ Subscribed(p), Plan(p, cart[p]) = "ok",
           ApplyVipGrant(p, cart[p], now),
           status' = [status EXCEPT ![s] = "active"],
           owner' = [owner EXCEPT ![s] = p],
           nextRenewalAt' = [nextRenewalAt EXCEPT ![s] = Later(p, cart[p], now) - Lead],
           steady' = IF cart[p] = tierRole THEN steady \cup {p} ELSE steady \ {p}
    PROVE  KeptInv'
<1> USE GrantAssumption, SubscriptionAssumption
<1> DEFINE t == Later(p, cart[p], now)
<1>0. /\ cart[p] \in TierRoles /\ now \in Nat /\ GrantTypeOK /\ tierRole' = tierRole /\ found' = found
      /\ Lead \in Nat /\ Days \in Nat \ {0}
  <2>1. Lead \in Nat /\ Days \in Nat \ {0}
    BY ONLY SMT, GrantAssumption, SubscriptionAssumption
  <2>2. now \in Nat
    <3>1. now \in 1..MaxTime
      BY Zenon DEF Types, TypeOK, GrantTypeOK
    <3> QED BY ONLY SMT, <3>1, GrantAssumption
  <2>3. GrantTypeOK /\ cart[p] \in TierRoles \cup {NoRole} /\ cart[p] # NoRole
    BY Zenon DEF Types, TypeOK, GrantTypeOK, CreateSubscription
  <2> QED BY Zenon, <2>1, <2>2, <2>3 DEF CreateSubscription
<1>1. /\ role' = [role EXCEPT ![p] = cart[p]]
      /\ roleExpiresAt' = [roleExpiresAt EXCEPT ![p] = t]
      /\ t \in Nat /\ t >= now + Days
  BY SMTT(30), <1>0, Sale
<1> HIDE DEF t
<1>2. ASSUME NEW q \in Players, q # p
      PROVE  role'[q] = role[q] /\ roleExpiresAt'[q] = roleExpiresAt[q]
  BY ZenonT(60), <1>1, <1>2 DEF Types, TypeOK, GrantTypeOK
<1>3. role'[p] = cart[p] /\ roleExpiresAt'[p] = t
  BY Zenon, <1>0, <1>1 DEF GrantTypeOK
<1>4. ActiveHoldsRole'
  <2> SUFFICES ASSUME NEW z \in Subs, status'[z] = "active", owner'[z] \in steady'
               PROVE  /\ role'[owner'[z]] = tierRole
                      /\ nextRenewalAt'[z] + Lead <= roleExpiresAt'[owner'[z]]
    BY Zenon, <1>0 DEF ActiveHoldsRole
  <2>1. CASE z = s
    <3>1. owner'[z] = p /\ nextRenewalAt'[z] = t - Lead
      BY Zenon, <2>1 DEF t, Types, TypeOK
    <3>2. cart[p] = tierRole
      BY SMTT(30), <3>1
    <3>3. role'[owner'[z]] = tierRole /\ roleExpiresAt'[owner'[z]] = t
      BY Zenon, <1>3, <3>1, <3>2
    <3>4. t \in Nat /\ Lead \in Nat
      BY Zenon, <1>0, <1>1
    <3>5. (t - Lead) + Lead <= t
      BY ONLY <3>4
    <3> QED BY Zenon, <3>1, <3>3, <3>5
  <2>2. CASE z # s
    <3>1. owner'[z] = owner[z] /\ nextRenewalAt'[z] = nextRenewalAt[z] /\ status[z] = "active"
      BY Zenon, <2>2 DEF Types, TypeOK
    <3>2. owner[z] # p /\ owner[z] \in steady /\ owner[z] \in Players
      <4>1. owner[z] # p
        BY Zenon, <3>1 DEF Subscribed
      <4>2. owner[z] \in steady
        <5>1. owner[z] \in steady'
          BY ONLY Zenon, <3>1, owner'[z] \in steady'
        <5>2. CASE cart[p] = tierRole
          BY ONLY Zenon, <4>1, <5>1, <5>2, steady' = IF cart[p] = tierRole THEN steady \cup {p} ELSE steady \ {p}
        <5>3. CASE cart[p] # tierRole
          BY ONLY Zenon, <5>1, <5>3, steady' = IF cart[p] = tierRole THEN steady \cup {p} ELSE steady \ {p}
        <5> QED BY ONLY Zenon, <5>2, <5>3
      <4> QED BY Zenon, <4>1, <4>2 DEF Types, TypeOK, GrantTypeOK
    <3> QED BY ZenonT(60), <1>2, <3>1, <3>2 DEF KeptInv, ActiveHoldsRole
  <2> QED BY Zenon, <2>1, <2>2
<1>5. FoundIsStale'
  <2> SUFFICES ASSUME NEW x \in Expirers, NEW e \in found[x], Kept(e.player)'
               PROVE  e.expiresAt < roleExpiresAt'[e.player]
    BY Zenon, <1>0 DEF FoundIsStale
  <2>1. e.player \in Players /\ e.expiresAt \in Nat /\ e.expiresAt <= now
    <3>1. e \in ExpiredRows
      BY Zenon DEF Types, TypeOK
    <3>2. e.player \in Players /\ e.expiresAt \in Nat
      BY ONLY ZenonT(60), <3>1 DEF ExpiredRows
    <3> QED BY Zenon, <3>2 DEF FoundIsOver
  <2>2. CASE e.player = p
    BY ONLY <1>0, <1>1, <1>3, <2>1, <2>2
  <2>3. CASE e.player # p
    <3>1. Kept(e.player)
      BY ZenonT(60), <2>3 DEF Kept, Subscribed, Types, TypeOK
    <3> QED BY Zenon, <1>2, <2>1, <2>3, <3>1 DEF KeptInv, FoundIsStale
  <2> QED BY Zenon, <2>2, <2>3
<1> QED BY ZenonT(60), <1>4, <1>5 DEF KeptInv

\* Two dates that are put off alike stay as far apart.
LEMMA BothLater ==
    ASSUME NEW a \in Nat, NEW b \in Nat, NEW c, NEW e \in Nat, NEW l \in Nat, a + l <= b,
           (c = a /\ e >= b) \/ \E n \in Nat : c = a + n /\ e >= b + n
    PROVE  c + l <= e
BY SMT

\* A renewal moves the expiry of the role by as much as the billing date.
LEMMA ChargeKept ==
    ASSUME Types, Types', KeptInv, NEW w \in Renewers, NEW d \in due[w], ChargeRenewal(w, d),
           Plan(owner[d.sub], d.role) = "ok", StillDue(d),
           ApplyVipGrant(owner[d.sub], d.role, passNow[w]),
           nextRenewalAt' = [nextRenewalAt EXCEPT ![d.sub] = d.dueAt + Days]
    PROVE  KeptInv'
<1> USE GrantAssumption, SubscriptionAssumption
<1> DEFINE p == owner[d.sub]
<1>0. /\ d.sub \in Subs /\ d.role \in TierRoles /\ d.dueAt \in Nat /\ p \in Players /\ passNow[w] \in Nat
      /\ Lead \in Nat /\ Days \in Nat
  <2>1. Lead \in Nat /\ Days \in Nat
    BY ONLY SMT, GrantAssumption, SubscriptionAssumption
  <2> QED BY Zenon, <2>1, RowOfPass
<1>1. UNCHANGED <<status, owner, steady, tierRole, found>>
  BY Zenon DEF ChargeRenewal
<1>2. ASSUME NEW q \in Players, Kept(q)
      PROVE  /\ role'[q] = role[q] /\ roleExpiresAt'[q] >= roleExpiresAt[q]
             /\ q = p => roleExpiresAt'[q] >= roleExpiresAt[q] + Days
  BY Zenon, <1>0, <1>2, SaleKept DEF KeptInv
<1>3. /\ roleExpiresAt \in [Players -> Nat] /\ roleExpiresAt' \in [Players -> Nat]
      /\ nextRenewalAt \in [Subs -> Nat] /\ steady \subseteq Players
  BY Zenon DEF Types, TypeOK, GrantTypeOK
<1>4. ActiveHoldsRole'
  <2> SUFFICES ASSUME NEW z \in Subs, status[z] = "active", owner[z] \in steady
               PROVE  /\ role'[owner[z]] = tierRole
                      /\ nextRenewalAt'[z] + Lead <= roleExpiresAt'[owner[z]]
    BY Zenon, <1>1 DEF ActiveHoldsRole
  <2>1. role[owner[z]] = tierRole /\ nextRenewalAt[z] + Lead <= roleExpiresAt[owner[z]]
    BY Zenon DEF KeptInv, ActiveHoldsRole
  <2>2. owner[z] \in Players /\ Kept(owner[z])
    BY Zenon, <1>3 DEF Kept, Subscribed
  <2>3. /\ nextRenewalAt[z] \in Nat /\ roleExpiresAt[owner[z]] \in Nat /\ roleExpiresAt'[owner[z]] \in Nat
    BY Zenon, <1>3, <2>2
  <2>4. role'[owner[z]] = tierRole
    BY Zenon, <1>2, <2>1, <2>2
  <2>5. CASE z = d.sub
    <3>1. nextRenewalAt'[z] = nextRenewalAt[z] + Days
      BY Zenon, <1>0, <1>3, <2>5 DEF StillDue
    <3>2. roleExpiresAt'[owner[z]] >= roleExpiresAt[owner[z]] + Days
      BY Zenon, <1>2, <2>2, <2>5
    <3>3. Lead \in Nat /\ Days \in Nat /\ nextRenewalAt[z] + Lead <= roleExpiresAt[owner[z]]
      BY Zenon, <1>0, <2>1
    <3>4. nextRenewalAt'[z] + Lead <= roleExpiresAt'[owner[z]]
      BY ONLY Zenon, <2>3, <3>1, <3>2, <3>3, BothLater
    <3> QED BY Zenon, <2>4, <3>4
  <2>6. CASE z # d.sub
    <3>1. nextRenewalAt'[z] = nextRenewalAt[z]
      BY Zenon, <1>3, <2>6
    <3>2. roleExpiresAt'[owner[z]] >= roleExpiresAt[owner[z]]
      BY Zenon, <1>2, <2>2
    <3>3. Lead \in Nat /\ nextRenewalAt[z] + Lead <= roleExpiresAt[owner[z]]
      BY Zenon, <1>0, <2>1
    <3>4. nextRenewalAt'[z] + Lead <= roleExpiresAt'[owner[z]]
      BY ONLY Zenon, <2>3, <3>1, <3>2, <3>3, BothLater
    <3> QED BY Zenon, <2>4, <3>4
  <2> QED BY Zenon, <2>5, <2>6
<1>5. FoundIsStale'
  <2> SUFFICES ASSUME NEW x \in Expirers, NEW e \in found[x], Kept(e.player)
               PROVE  e.expiresAt < roleExpiresAt'[e.player]
    BY Zenon, <1>1 DEF FoundIsStale, Kept, Subscribed
  <2>1. e.player \in Players /\ e.expiresAt \in Nat /\ e.expiresAt < roleExpiresAt[e.player]
    <3>1. e \in ExpiredRows
      BY Zenon DEF Types, TypeOK
    <3>2. e.player \in Players /\ e.expiresAt \in Nat
      BY ONLY Zenon, <3>1 DEF ExpiredRows
    <3> QED BY Zenon, <3>2 DEF KeptInv, FoundIsStale
  <2>2. roleExpiresAt'[e.player] >= roleExpiresAt[e.player]
    BY Zenon, <1>2, <2>1
  <2> QED BY ONLY <1>3, <2>1, <2>2
<1> QED BY Zenon, <1>4, <1>5 DEF KeptInv

\* No step takes the role from a player whose subscription is active, but those
\* of administrators.
LEMMA KeptStep ==
    ASSUME RewardRole \notin TierRoles, Types, FoundIsOver, KeptInv, [Next]_vars
    PROVE  KeptInv'
<1> USE GrantAssumption
<1>0. Types'
  BY Zenon, StepTypes
<1>1. /\ GrantTypeOK /\ ActiveHoldsRole /\ FoundIsStale /\ now \in Nat
      /\ roleExpiresAt \in [Players -> Nat] /\ steady \subseteq Players
  BY SMTT(30) DEF Types, TypeOK, GrantTypeOK, KeptInv
<1>2. \A x \in Expirers : \A e \in found'[x] : e \in found[x] \/ ~ Kept(e.player)
  BY Zenon, <1>1, FoundNotKept
<1>3. \A p \in steady : Subscribed(p) => p \in Players /\ Kept(p)
  BY Zenon, <1>1 DEF Kept
<1>4. CASE GrantStep
  <2>1. UNCHANGED <<status, owner, nextRenewalAt, found>>
    BY Zenon, <1>4 DEF GrantStep
  <2>2. ASSUME NEW p \in Players, Purchase(p) PROVE KeptInv'
    <3>1. cart[p] \in TierRoles /\ UNCHANGED <<tierRole, steady>>
      BY Zenon, <1>1, <2>2 DEF Purchase, GrantTypeOK
    <3>2. \A q \in steady : Subscribed(q) =>
             role'[q] = role[q] /\ roleExpiresAt'[q] >= roleExpiresAt[q]
      <4>1. CASE Plan(p, cart[p]) = "ok" /\ ApplyVipGrant(p, cart[p], now)
        BY Zenon, <1>1, <1>3, <3>1, <4>1, SaleKept
      <4>2. CASE UNCHANGED player
        BY ONLY <1>1, <4>2
      <4> QED BY Zenon, <2>2, <4>1, <4>2 DEF Purchase
    <3> QED BY Zenon, <1>0, <1>2, <2>1, <3>1, <3>2, KeptCarries
  <2>3. ASSUME NEW p \in Players, NEW r \in Roles \cup {NoRole}, NEW term \in Terms,
               AssignRole(p, r, term)
        PROVE  KeptInv'
    <3>1. /\ tierRole' = tierRole /\ steady' = steady \ {p}
          /\ \A q \in steady' : role'[q] = role[q] /\ roleExpiresAt'[q] = roleExpiresAt[q]
      BY Zenon, <1>1, <2>3 DEF AssignRole, GrantTypeOK
    <3>2. \A q \in steady' : roleExpiresAt'[q] >= roleExpiresAt[q]
      BY ONLY <1>1, <3>1
    <3> QED BY Zenon, <1>0, <1>2, <2>1, <3>1, <3>2, KeptCarries
  <2>4. ASSUME NEW r \in TierRoles, UpdateTier(r) PROVE KeptInv'
    <3>1. /\ tierRole' = tierRole \/ steady' = {}
          /\ steady' \subseteq steady /\ UNCHANGED player
      BY Zenon, <2>4 DEF UpdateTier
    <3>2. \A q \in steady' : roleExpiresAt'[q] >= roleExpiresAt[q]
      BY <1>1, <3>1
    <3> QED BY Zenon, <1>0, <1>2, <2>1, <3>1, <3>2, KeptCarries
  <2>5. CASE SeedReconcile
    <3>1. UNCHANGED <<tierRole, steady>>
      BY Zenon, <2>5 DEF SeedReconcile
    <3>2. ASSUME NEW q \in steady, Subscribed(q)
          PROVE  role'[q] = role[q] /\ roleExpiresAt'[q] >= roleExpiresAt[q]
      <4>1. q \in Players /\ role[q] \in TierRoles
        BY Zenon, <1>1, <1>3, <3>2, KeptHolds
      <4>2. ~ Unchanged(q, NoRole) /\ ~ Unchanged(q, RewardRole)
        BY Zenon, <4>1 DEF Unchanged, Roles
      <4>3. role'[q] = role[q] /\ roleExpiresAt'[q] = roleExpiresAt[q]
        BY Zenon, <2>5, <4>1, <4>2 DEF SeedReconcile
      <4> QED BY ONLY <1>1, <4>1, <4>3
    <3> QED BY Zenon, <1>0, <1>2, <2>1, <3>1, <3>2, KeptCarries
  <2>6. CASE UNCHANGED <<tierRole, steady, role, roleExpiresAt>>
    <3>1. \A q \in steady' : roleExpiresAt'[q] >= roleExpiresAt[q]
      BY ONLY <1>1, <2>6
    <3> QED BY Zenon, <1>0, <1>2, <2>1, <2>6, <3>1, KeptCarries
  <2> QED
    BY Zenon, <1>4, <2>2, <2>3, <2>4, <2>5, <2>6
       DEF GrantStep, GrantNext, ResolveTier, SeedTimeChanges, AdjustBonus, UpdateRole, SeedSnapshot, Clock
<1>5. ASSUME NEW s \in Subs, NEW p \in Players, CreateSubscription(p, s) PROVE KeptInv'
  <2>1. CASE UNCHANGED <<player, paid, status, owner, nextRenewalAt, firstAt, charges, steady>>
    <3>1. UNCHANGED <<tierRole, found>>
      BY Zenon, <1>5 DEF CreateSubscription
    <3>2. \A q \in steady' : roleExpiresAt'[q] >= roleExpiresAt[q]
      BY ONLY <1>1, <2>1
    <3> QED BY Zenon, <1>0, <1>2, <2>1, <3>1, <3>2, KeptCarries
  <2> QED BY Zenon, <1>0, <1>5, <2>1, CreateKept DEF CreateSubscription
<1>6. ASSUME NEW w \in Renewers, NEW d \in due[w], ChargeRenewal(w, d) PROVE KeptInv'
  <2>1. CASE UNCHANGED <<player, nextRenewalAt>>
    <3>1. UNCHANGED <<tierRole, steady, status, owner, found>>
      BY Zenon, <1>6 DEF ChargeRenewal
    <3>2. \A q \in steady' : roleExpiresAt'[q] >= roleExpiresAt[q]
      BY SMTT(30), <1>1, <2>1, <3>1
    <3> QED BY Zenon, <1>0, <1>2, <2>1, <3>1, <3>2, KeptCarries
  <2> QED BY Zenon, <1>0, <1>6, <2>1, ChargeKept DEF ChargeRenewal
<1>7. ASSUME NEW x \in Expirers, ClearExpired(x) PROVE KeptInv'
  <2>1. UNCHANGED <<tierRole, steady, status, owner, nextRenewalAt>>
    BY Zenon, <1>7 DEF ClearExpired
  <2>2. ASSUME NEW q \in steady, Subscribed(q)
        PROVE  role'[q] = role[q] /\ roleExpiresAt'[q] >= roleExpiresAt[q]
    <3>1. q \in Players /\ Kept(q) /\ roleExpiresAt[q] \in Nat
      BY Zenon, <1>1, <1>3, <2>2
    <3>2. ~ AsFound(x, q)
      <4> SUFFICES ASSUME NEW e \in found[x], e.player = q, e.expiresAt = roleExpiresAt[q] PROVE FALSE
        BY Zenon DEF AsFound
      <4>1. e.expiresAt < roleExpiresAt[q]
        BY Zenon, <1>1, <3>1 DEF FoundIsStale
      <4> QED BY <3>1, <4>1
    <3>3. role'[q] = role[q] /\ roleExpiresAt'[q] = roleExpiresAt[q]
      BY Zenon, <1>7, <3>1, <3>2 DEF ClearExpired
    <3> QED BY <3>1, <3>3
  <2> QED BY Zenon, <1>0, <1>2, <2>1, <2>2, KeptCarries
<1>8. CASE /\ UNCHANGED <<tierRole, steady, role, roleExpiresAt, owner, nextRenewalAt>>
           /\ \A s \in Subs : status'[s] = "active" => status[s] = "active"
  <2>1. \A q \in steady' : roleExpiresAt'[q] >= roleExpiresAt[q]
    BY ONLY <1>1, <1>8
  <2> QED BY Zenon, <1>0, <1>2, <1>8, <2>1, KeptCarries
<1>9. ASSUME NEW s \in Subs, CancelSubscription(s) PROVE KeptInv'
  BY Zenon, <1>8, <1>9 DEF CancelSubscription, Types, TypeOK
<1>10. ASSUME NEW w \in Renewers, NEW d \in due[w], ExpireSubscription(w, d) PROVE KeptInv'
  <2>1. d.sub \in Subs
    BY Zenon, RowOfPass
  <2> QED BY Zenon, <1>8, <1>10, <2>1 DEF ExpireSubscription, Types, TypeOK
<1> QED
  BY ZenonT(30), <1>4, <1>5, <1>6, <1>7, <1>8, <1>9, <1>10
     DEF Next, GrantStep, RenewalStep, FindDue, NotifyExpired, RowFails, ExpiryStep, FindExpired,
         WorkerCrash, vars

\* The player of an active subscription has the tier's role, and is billed Lead
\* ahead of its expiry, unless an administrator has changed the one or the other
\* and if the seed reward has a role of its own.
THEOREM NoLapse ==
    ASSUME RewardRole \notin TierRoles
    PROVE  Spec => []ActiveHoldsRole
<1>1. Init => FoundIsOver /\ KeptInv
  BY Zenon DEF Init, FoundIsOver, KeptInv, ActiveHoldsRole, FoundIsStale
<1>2. Types /\ FoundIsOver /\ KeptInv /\ [Next]_vars => Types' /\ FoundIsOver' /\ KeptInv'
  BY Zenon, StepTypes, FoundIsOverStep, KeptStep
<1>3. KeptInv => ActiveHoldsRole
  BY Zenon DEF KeptInv
<1> QED
  BY InitTypes, <1>1, <1>2, <1>3, PTL DEF Spec

-----------------------------------------------------------------------------
(* Announcements *)

\* The pass that is about to announce an end is the only one to, of a row that
\* is ended and not announced.
ToAnnounce ==
    /\ \A w \in Renewers : due[w] = {} => stage[w] = "charge"
    /\ \A w \in Renewers : \A d \in due[w] :
          (stage[w] = "notify" /\ First(w, d)) => status[d.sub] = "expired" /\ alerts[d.sub] = 0
    /\ \A w, v \in Renewers : \A d \in due[w], e \in due[v] :
          (w # v /\ stage[w] = "notify" /\ stage[v] = "notify" /\ First(w, d) /\ First(v, e))
             => d.sub # e.sub

AnnounceInv == AnnouncedOnce /\ ToAnnounce

\* The first row of a pass is one subscription's.
LEMMA FirstIsOne ==
    ASSUME Types, NEW w \in Renewers, NEW d \in due[w], NEW e \in due[w], First(w, d), First(w, e)
    PROVE  d.sub = e.sub
<1>1. d.dueAt \in Nat /\ e.dueAt \in Nat /\ d.sub \in Nat /\ e.sub \in Nat
  BY Zenon, RowOfPass, SubscriptionAssumption
<1> QED BY <1>1 DEF First

\* A step in which no pass comes to announce, and none of the rows that are to be
\* announced is touched.
LEMMA AnnounceCarries ==
    ASSUME Types, AnnounceInv,
           \A s \in Subs : status[s] = "expired" => status'[s] = "expired",
           UNCHANGED alerts,
           \A w \in Renewers : due'[w] = {} => stage'[w] = "charge",
           \A w \in Renewers : stage'[w] = "notify" => stage[w] = "notify" /\ due'[w] = due[w]
    PROVE  AnnounceInv'
<1>1. \A w \in Renewers : \A d : stage'[w] = "notify" /\ First(w, d)' => stage[w] = "notify" /\ First(w, d)
  BY Zenon DEF First
<1>2. \A w \in Renewers : \A d \in due[w] : d.sub \in Subs
  BY Zenon, RowOfPass
<1>3. AnnouncedOnce'
  BY ZenonT(60) DEF AnnounceInv, AnnouncedOnce, Types, TypeOK
<1>4. ToAnnounce'
  BY SMTT(30), <1>1, <1>2 DEF AnnounceInv, ToAnnounce
<1> QED BY Zenon, <1>3, <1>4 DEF AnnounceInv

\* Settled leaves the other passes alone, and this one with nothing to announce.
LEMMA SettledStages ==
    ASSUME Types, AnnounceInv, NEW w \in Renewers, NEW d \in due[w], Settled(w, d)
    PROVE  /\ \A v \in Renewers : due'[v] = {} => stage'[v] = "charge"
           /\ \A v \in Renewers : stage'[v] = "notify" => v # w /\ stage[v] = "notify" /\ due'[v] = due[v]
BY ZenonT(30) DEF Types, TypeOK, AnnounceInv, ToAnnounce, Settled

LEMMA AnnounceStep ==
    ASSUME Types, AnnounceInv, [Next]_vars
    PROVE  AnnounceInv'
<1>0. /\ status \in [Subs -> {"absent", "active", "cancelled", "expired"}] /\ alerts \in [Subs -> Nat]
      /\ stage \in [Renewers -> {"charge", "expire", "notify"}]
      /\ due \in [Renewers -> SUBSET DueRows]
  BY Zenon DEF Types, TypeOK
<1>1. CASE UNCHANGED <<status, alerts, due, stage>>
  BY Zenon, <1>1, AnnounceCarries DEF AnnounceInv, ToAnnounce
<1>2. ASSUME NEW s \in Subs, CancelSubscription(s) PROVE AnnounceInv'
  BY Zenon, <1>0, <1>2, AnnounceCarries DEF AnnounceInv, ToAnnounce, CancelSubscription
<1>3. ASSUME NEW s \in Subs, NEW p \in Players, CreateSubscription(p, s) PROVE AnnounceInv'
  BY ZenonT(60), <1>0, <1>3, AnnounceCarries DEF AnnounceInv, ToAnnounce, CreateSubscription
<1>4. ASSUME NEW w \in Renewers, FindDue(w) PROVE AnnounceInv'
  <2>1. stage[w] = "charge" /\ due[w] = {} /\ UNCHANGED <<status, alerts, stage>>
    BY Zenon, <1>4 DEF AnnounceInv, ToAnnounce, FindDue
  <2>2. \A v \in Renewers : v # w => due'[v] = due[v]
    BY Zenon, <1>0, <1>4 DEF FindDue
  <2> QED BY Zenon, <1>0, <2>1, <2>2, AnnounceCarries DEF AnnounceInv, ToAnnounce
<1>5. ASSUME NEW w \in Renewers, NEW d \in due[w], ChargeRenewal(w, d) PROVE AnnounceInv'
  <2>1. UNCHANGED <<status, alerts>>
    BY Zenon, <1>5 DEF ChargeRenewal
  <2>2. CASE Settled(w, d)
    BY Zenon, <2>1, <2>2, SettledStages, AnnounceCarries
  <2>3. CASE stage' = [stage EXCEPT ![w] = "expire"] /\ UNCHANGED due
    BY ZenonT(60), <1>0, <2>1, <2>3, AnnounceCarries DEF AnnounceInv, ToAnnounce
  <2> QED BY Zenon, <1>5, <2>2, <2>3 DEF ChargeRenewal
<1>6. ASSUME NEW w \in Renewers, NEW d \in due[w], ExpireSubscription(w, d) PROVE AnnounceInv'
  <2>1. alerts' = alerts /\ d.sub \in Subs /\ First(w, d)
    BY Zenon, <1>6, RowOfPass DEF ExpireSubscription
  <2>2. CASE Settled(w, d) /\ UNCHANGED status
    BY Zenon, <2>1, <2>2, SettledStages, AnnounceCarries
  <2>3. CASE /\ status[d.sub] = "active" /\ status' = [status EXCEPT ![d.sub] = "expired"]
             /\ stage' = [stage EXCEPT ![w] = "notify"] /\ UNCHANGED due
    <3>1. alerts[d.sub] = 0
      BY <1>0, <2>1, <2>3 DEF AnnounceInv, AnnouncedOnce
    <3>2. AnnouncedOnce'
      BY Zenon, <1>0, <2>1, <2>3 DEF AnnounceInv, AnnouncedOnce
    <3>3. \A v \in Renewers : \A e : First(v, e)' <=> First(v, e)
      BY Zenon, <2>3 DEF First
    <3>4. \A e \in due[w] : First(w, e) => e.sub = d.sub
      BY Zenon, <2>1, FirstIsOne
    <3>5. \A v \in Renewers \ {w} : \A e \in due[v] :
             (stage[v] = "notify" /\ First(v, e)) =>
                e.sub \in Subs /\ e.sub # d.sub /\ status[e.sub] = "expired" /\ alerts[e.sub] = 0
      BY Zenon, <2>3, RowOfPass DEF AnnounceInv, ToAnnounce
    <3>6. \A v \in Renewers : v # w => stage'[v] = stage[v]
      BY Zenon, <1>0, <2>3
    <3>7. stage'[w] = "notify" /\ status'[d.sub] = "expired"
      BY Zenon, <1>0, <2>1, <2>3
    <3>8. \A v \in Renewers : due'[v] = {} => stage'[v] = "charge"
      BY Zenon, <2>3, <3>6 DEF AnnounceInv, ToAnnounce
    <3>9. \A v \in Renewers : \A e \in due'[v] :
             (stage'[v] = "notify" /\ First(v, e)') => status'[e.sub] = "expired" /\ alerts'[e.sub] = 0
      <4> TAKE v \in Renewers
      <4> TAKE e \in due'[v]
      <4>1. CASE v = w
        BY Zenon, <2>1, <2>3, <3>1, <3>3, <3>4, <3>7, <4>1
      <4>2. CASE v # w
        BY ZenonT(60), <1>0, <2>1, <2>3, <3>3, <3>5, <3>6, <4>2
      <4> QED BY ZenonT(60), <4>1, <4>2
    <3>10. \A u, v \in Renewers : \A f \in due'[u], e \in due'[v] :
             (u # v /\ stage'[u] = "notify" /\ stage'[v] = "notify" /\ First(u, f)' /\ First(v, e)')
                => f.sub # e.sub
      <4> SUFFICES ASSUME NEW u \in Renewers, NEW v \in Renewers, NEW f \in due'[u], NEW e \in due'[v],
                          u # v, stage'[u] = "notify", stage'[v] = "notify", First(u, f)', First(v, e)'
                   PROVE  f.sub # e.sub
        BY Zenon
      <4>0. f \in due[u] /\ e \in due[v] /\ First(u, f) /\ First(v, e)
        BY Zenon, <2>3, <3>3
      <4>1. CASE u = w
        BY Zenon, <3>4, <3>5, <3>6, <4>0, <4>1
      <4>2. CASE v = w
        BY Zenon, <3>4, <3>5, <3>6, <4>0, <4>2
      <4>3. CASE u # w /\ v # w
        <5>1. stage[u] = "notify" /\ stage[v] = "notify"
          BY Zenon, <3>6, <4>3
        <5>2. ToAnnounce
          BY Zenon DEF AnnounceInv
        <5> QED BY ONLY Zenon, <4>0, <4>3, <5>1, <5>2, u \in Renewers, v \in Renewers, u # v DEF ToAnnounce
      <4> QED BY Zenon, <4>1, <4>2, <4>3
    <3> QED BY Zenon, <3>2, <3>8, <3>9, <3>10 DEF AnnounceInv, ToAnnounce
  <2> QED BY Zenon, <1>6, <2>2, <2>3 DEF ExpireSubscription
<1>7. ASSUME NEW w \in Renewers, NEW d \in due[w], NotifyExpired(w, d) PROVE AnnounceInv'
  <2>1. /\ d.sub \in Subs /\ First(w, d) /\ stage[w] = "notify" /\ status' = status
        /\ Settled(w, d) /\ alerts' = [alerts EXCEPT ![d.sub] = alerts[d.sub] + 1]
    BY Zenon, <1>7, RowOfPass DEF NotifyExpired
  <2>2. status[d.sub] = "expired" /\ alerts[d.sub] = 0
    BY Zenon, <2>1 DEF AnnounceInv, ToAnnounce
  <2>3. AnnouncedOnce'
    BY SMTT(30), <1>0, <2>1, <2>2 DEF AnnounceInv, AnnouncedOnce
  <2>4. /\ \A v \in Renewers : due'[v] = {} => stage'[v] = "charge"
        /\ \A v \in Renewers : stage'[v] = "notify" => v # w /\ stage[v] = "notify" /\ due'[v] = due[v]
    BY Zenon, <2>1, SettledStages
  <2>5. \A v \in Renewers : \A e : (stage'[v] = "notify" /\ First(v, e)') => First(v, e)
    BY Zenon, <2>4 DEF First
  <2>6. \A v \in Renewers : \A e \in due'[v] :
           (stage'[v] = "notify" /\ First(v, e)') => status'[e.sub] = "expired" /\ alerts'[e.sub] = 0
    <3> SUFFICES ASSUME NEW v \in Renewers, NEW e \in due'[v], stage'[v] = "notify", First(v, e)'
                 PROVE  status[e.sub] = "expired" /\ alerts'[e.sub] = 0
      BY Zenon, <2>1
    <3>1. v # w /\ stage[v] = "notify" /\ e \in due[v] /\ First(v, e)
      BY Zenon, <2>4, <2>5
    <3>2. e.sub # d.sub /\ status[e.sub] = "expired" /\ alerts[e.sub] = 0
      BY Zenon, <2>1, <3>1 DEF AnnounceInv, ToAnnounce
    <3>3. e.sub \in Subs
      BY Zenon, <3>1, RowOfPass
    <3> QED BY Zenon, <1>0, <2>1, <3>2, <3>3
  <2>7. \A u, v \in Renewers : \A f \in due'[u], e \in due'[v] :
           (u # v /\ stage'[u] = "notify" /\ stage'[v] = "notify" /\ First(u, f)' /\ First(v, e)')
              => f.sub # e.sub
    <3>1. ToAnnounce
      BY Zenon DEF AnnounceInv
    <3> SUFFICES ASSUME NEW u \in Renewers, NEW v \in Renewers, NEW f \in due'[u], NEW e \in due'[v],
                        u # v, stage'[u] = "notify", stage'[v] = "notify", First(u, f)', First(v, e)'
                 PROVE  f.sub # e.sub
      BY Zenon
    <3>2. /\ stage[u] = "notify" /\ f \in due[u] /\ First(u, f)
          /\ stage[v] = "notify" /\ e \in due[v] /\ First(v, e)
      BY Zenon, <2>4, <2>5
    <3> QED BY ONLY Zenon, <3>1, <3>2, u \in Renewers, v \in Renewers, u # v DEF ToAnnounce
  <2> QED BY Zenon, <2>3, <2>4, <2>6, <2>7 DEF AnnounceInv, ToAnnounce
<1>8. ASSUME NEW w \in Renewers, NEW d \in due[w], RowFails(w, d) PROVE AnnounceInv'
  BY Zenon, <1>8, SettledStages, AnnounceCarries DEF RowFails
<1>9. CASE WorkerCrash
  <2>1. UNCHANGED <<status, alerts>>
    BY ONLY Zenon, <1>9 DEF WorkerCrash, subscription
  <2>2. \A v \in Renewers : due[v] = {} => stage[v] = "charge"
    BY Zenon DEF AnnounceInv, ToAnnounce
  <2>3. \A v \in Renewers : \/ due'[v] = due[v] /\ stage'[v] = stage[v]
                            \/ due'[v] = {} /\ stage'[v] = "charge"
    <3>1. CASE UNCHANGED renewal
      BY ONLY Zenon, <3>1 DEF renewal
    <3>2. CASE \E w \in Renewers : due' = [due EXCEPT ![w] = {}] /\ stage' = [stage EXCEPT ![w] = "charge"]
      <4>1. PICK w \in Renewers : due' = [due EXCEPT ![w] = {}] /\ stage' = [stage EXCEPT ![w] = "charge"]
        BY ONLY Zenon, <3>2
      <4>2. /\ due'[w] = {} /\ stage'[w] = "charge"
            /\ \A v \in Renewers : v # w => due'[v] = due[v] /\ stage'[v] = stage[v]
        BY ONLY Zenon, <1>0, <4>1
      <4> QED BY ONLY Zenon, <4>2
    <3> QED BY ONLY Zenon, <1>9, <3>1, <3>2 DEF WorkerCrash
  <2> QED BY Zenon, <2>1, <2>2, <2>3, AnnounceCarries
<1> QED
  BY Zenon, <1>1, <1>2, <1>3, <1>4, <1>5, <1>6, <1>7, <1>8, <1>9
     DEF Next, RenewalStep, ExpiryStep, FindExpired, ClearExpired, vars

\* The end of a subscription is announced at most once, and only of one that a
\* renewal pass has ended.
THEOREM AnnouncedAtMostOnce == Spec => []AnnouncedOnce
<1>1. Init => AnnounceInv
  BY DEF Init, AnnounceInv, AnnouncedOnce, ToAnnounce
<1>2. Types /\ AnnounceInv /\ [Next]_vars => Types' /\ AnnounceInv'
  BY Zenon, StepTypes, AnnounceStep
<1>3. AnnounceInv => AnnouncedOnce
  BY Zenon DEF AnnounceInv
<1> QED
  BY InitTypes, <1>1, <1>2, <1>3, PTL DEF Spec
-----------------------------------------------------------------------------
(* The promise *)

\* A pass works on what was due when it began, and it began in the past.
PassInv ==
    \A w \in Renewers : \A d \in due[w] : d.dueAt <= passNow[w] /\ passNow[w] <= now

\* Passes that at most settle rows keep PassInv.
LEMMA PassCarries ==
    ASSUME Types, PassInv, now \in Nat, now' \in Nat, now <= now',
           \A w \in Renewers : \A d \in due'[w] : d \in due[w] /\ passNow'[w] = passNow[w]
    PROVE  PassInv'
<1> SUFFICES ASSUME NEW w \in Renewers, NEW d \in due'[w]
             PROVE  d.dueAt <= passNow'[w] /\ passNow'[w] <= now'
  BY Zenon DEF PassInv
<1>1. d \in due[w] /\ passNow'[w] = passNow[w]
  BY Zenon
<1>2. d.dueAt <= passNow[w] /\ passNow[w] <= now
  BY Zenon, <1>1 DEF PassInv
<1>3. passNow[w] \in Nat
  BY Zenon, <1>1, RowOfPass
<1> QED BY ONLY SMT, <1>1, <1>2, <1>3, now \in Nat, now' \in Nat, now <= now'

LEMMA SettledPass ==
    ASSUME Types, NEW w \in Renewers, NEW d \in due[w], Settled(w, d)
    PROVE  \A v \in Renewers : \A e \in due'[v] : e \in due[v] /\ passNow'[v] = passNow[v]
<1>1. due \in [Renewers -> SUBSET DueRows] /\ passNow \in [Renewers -> Nat]
  BY Zenon DEF Types, TypeOK
<1>2. due' = [due EXCEPT ![w] = due[w] \ {d}]
  BY Zenon DEF Settled
<1>3. CASE due[w] = {d}
  BY Zenon, <1>1, <1>2, <1>3 DEF Settled
<1>4. CASE due[w] # {d}
  BY Zenon, <1>1, <1>2, <1>4 DEF Settled
<1> QED BY Zenon, <1>3, <1>4

LEMMA PassStep ==
    ASSUME Types, PassInv, [Next]_vars
    PROVE  PassInv'
<1>0. now \in Nat /\ now' \in Nat /\ now <= now'
  BY Zenon, ClockStep
<1>1. CASE UNCHANGED <<due, passNow>>
  BY Zenon, <1>0, <1>1, PassCarries
<1>2. ASSUME NEW w \in Renewers, FindDue(w) PROVE PassInv'
  <2>1. now' = now /\ passNow' = [passNow EXCEPT ![w] = now]
    BY Zenon, <1>2 DEF FindDue
  <2>2. due' = [due EXCEPT ![w] = {[sub |-> s, role |-> tierRole, dueAt |-> nextRenewalAt[s]] :
                                     s \in {x \in Subs : DueAt(x)}}]
    BY Zenon, <1>2 DEF FindDue
  <2>3. due \in [Renewers -> SUBSET DueRows] /\ passNow \in [Renewers -> Nat]
    BY Zenon DEF Types, TypeOK
  <2> SUFFICES ASSUME NEW v \in Renewers, NEW d \in due'[v]
               PROVE  d.dueAt <= passNow'[v] /\ passNow'[v] <= now
    BY Zenon, <2>1 DEF PassInv
  <2>4. CASE v = w
    <3>1. passNow'[v] = now
      BY Zenon, <2>1, <2>3, <2>4
    <3>2. PICK s \in Subs : DueAt(s) /\ d = [sub |-> s, role |-> tierRole, dueAt |-> nextRenewalAt[s]]
      BY Zenon, <2>2, <2>3, <2>4
    <3>3. d.dueAt <= now
      BY Zenon, <3>2 DEF DueAt
    <3> QED BY SMT, <1>0, <3>1, <3>3
  <2>5. CASE v # w
    BY Zenon, <2>1, <2>2, <2>3, <2>5 DEF PassInv
  <2> QED BY Zenon, <2>4, <2>5
<1>3. ASSUME NEW w \in Renewers, NEW d \in due[w], Settled(w, d) PROVE PassInv'
  BY Zenon, <1>0, <1>3, SettledPass, PassCarries
<1>4. CASE WorkerCrash
  <2>1. \A w \in Renewers : \A d \in due'[w] : d \in due[w] /\ passNow'[w] = passNow[w]
    <3>1. due \in [Renewers -> SUBSET DueRows] /\ passNow \in [Renewers -> Nat]
      BY Zenon DEF Types, TypeOK
    <3> QED BY ONLY ZenonT(60), <1>4, <3>1 DEF WorkerCrash, renewal
  <2> QED BY Zenon, <1>0, <2>1, PassCarries
<1>5. ASSUME NEW q \in Subs, CancelSubscription(q) \/ \E p \in Players : CreateSubscription(p, q)
      PROVE  UNCHANGED <<due, passNow>>
  BY ONLY Zenon, <1>5 DEF CancelSubscription, CreateSubscription, renewal
<1>6. ASSUME NEW x \in Expirers, ExpiryStep(x) PROVE UNCHANGED <<due, passNow>>
  BY ONLY Zenon, <1>6 DEF ExpiryStep, FindExpired, ClearExpired, renewal
<1>7. ASSUME NEW w \in Renewers, NEW d \in due[w],
             ChargeRenewal(w, d) \/ ExpireSubscription(w, d) \/ NotifyExpired(w, d) \/ RowFails(w, d)
      PROVE  Settled(w, d) \/ UNCHANGED <<due, passNow>>
  BY ONLY Zenon, <1>7 DEF ChargeRenewal, ExpireSubscription, NotifyExpired, RowFails
<1>8. UNCHANGED vars \/ UNCHANGED renewal => UNCHANGED <<due, passNow>>
  BY ONLY Zenon DEF vars, renewal
<1> QED
  BY ONLY ZenonT(60), [Next]_vars, <1>1, <1>2, <1>3, <1>4, <1>5, <1>6, <1>7, <1>8 DEF Next, RenewalStep

\* A sale is a payment of the promise.
LEMMA SaleIsPaid ==
    ASSUME GrantTypeOK, NEW p \in Players, NEW r \in TierRoles, NEW t \in Nat, NEW least \in Nat,
           Plan(p, r) = "ok", ApplyVipGrant(p, r, t), least <= t + Days
    PROVE  Promise!Pay(p, least) /\ paid'[p] = Later(p, r, t)
<1>1. /\ paid' = [paid EXCEPT ![p] = Later(p, r, t)]
      /\ Later(p, r, t) \in Nat /\ Later(p, r, t) >= t + Days
  BY SMT, Sale
<1>2. paid'[p] = Later(p, r, t)
  BY Zenon, <1>1 DEF GrantTypeOK
<1>3. paid'[p] >= least
  BY SMT, <1>1, <1>2, GrantAssumption
<1>4. balance[p] >= Price
  BY SMT, GrantAssumption DEF GrantTypeOK, Plan
<1>5. balance' = [balance EXCEPT ![p] = balance[p] - Price]
  BY Zenon DEF ApplyVipGrant
<1> QED BY Zenon, <1>1, <1>2, <1>3, <1>4, <1>5 DEF Promise!Pay

\* What the promise does not speak of may change as it likes.
promised == <<now, balance, paid, status, owner, nextRenewalAt, charges, alerts>>
LEMMA HiddenSteps == ASSUME UNCHANGED promised PROVE UNCHANGED Promise!vars
BY Zenon DEF promised, Promise!vars, Promise!account

\* The routes, the administrators, the seed reward and the clock.
LEMMA GrantKeepsPromise ==
    ASSUME Types, GrantStep
    PROVE  [Promise!Next]_(Promise!vars)
<1> USE DEF GrantStep
<1>1. ASSUME NEW p \in Players, Purchase(p) PROVE [Promise!Next]_(Promise!vars)
  <2>1. cart[p] \in TierRoles /\ now \in Nat /\ GrantTypeOK /\ now + Days \in Nat /\ now + Days <= now + Days
    BY <1>1, GrantAssumption DEF Types, TypeOK, GrantTypeOK, Purchase
  <2>2. CASE Plan(p, cart[p]) = "ok" /\ ApplyVipGrant(p, cart[p], now)
    <3>1. Promise!Pay(p, now + Days)
      BY Zenon, <2>1, <2>2, SaleIsPaid
    <3>2. Promise!Buy(p)
      BY Zenon, <1>1, <3>1 DEF Promise!Buy, Promise!account, Purchase
    <3> QED BY Zenon, <3>2 DEF Promise!Next
  <2>3. CASE UNCHANGED <<player, paid>>
    BY Zenon, <1>1, <2>3, HiddenSteps DEF Purchase, promised
  <2> QED BY Zenon, <1>1, <2>2, <2>3 DEF Purchase
<1>2. ASSUME NEW p \in Players, NEW a \in {-Price, Price}, AdjustBonus(p, a)
      PROVE  [Promise!Next]_(Promise!vars)
  <2>1. Promise!Adjust(p, a)
    BY Zenon, <1>2 DEF AdjustBonus, Promise!Adjust, Promise!account
  <2> QED BY Zenon, <2>1 DEF Promise!Next
<1>3. ASSUME NEW p \in Players, NEW r \in Roles \cup {NoRole}, NEW term \in Terms, AssignRole(p, r, term)
      PROVE  [Promise!Next]_(Promise!vars)
  <2>1. Promise!Overrule(p)
    BY Zenon, <1>3 DEF AssignRole, Null, Promise!Overrule, Promise!account
  <2> QED BY Zenon, <2>1 DEF Promise!Next
<1>4. CASE Clock
  <2>1. Promise!Tick
    BY Zenon, <1>4 DEF Clock, Promise!Tick, Promise!account
  <2> QED BY Zenon, <2>1 DEF Promise!Next
<1>5. ASSUME NEW p \in Players, ResolveTier(p) \/ SeedTimeChanges(p) PROVE UNCHANGED promised
  BY Zenon, <1>5 DEF ResolveTier, SeedTimeChanges, promised
<1>6. ASSUME NEW r, UpdateTier(r) \/ \E a \in BOOLEAN : UpdateRole(r, a) PROVE UNCHANGED promised
  BY Zenon, <1>6 DEF UpdateTier, UpdateRole, promised
<1>7. ASSUME SeedSnapshot \/ SeedReconcile PROVE UNCHANGED promised
  BY Zenon, <1>7 DEF SeedSnapshot, SeedReconcile, promised
<1> QED
  BY Zenon, <1>1, <1>2, <1>3, <1>4, <1>5, <1>6, <1>7, HiddenSteps DEF GrantNext

LEMMA CreateKeepsPromise ==
    ASSUME Types, NEW p \in Players, NEW s \in Subs, CreateSubscription(p, s)
    PROVE  [Promise!Next]_(Promise!vars)
<1>1. cart[p] \in TierRoles /\ now \in Nat /\ GrantTypeOK /\ now + Days \in Nat /\ now + Days <= now + Days
  BY GrantAssumption DEF Types, TypeOK, GrantTypeOK, CreateSubscription
<1>2. CASE /\ ~ Subscribed(p) /\ Plan(p, cart[p]) = "ok"
           /\ ApplyVipGrant(p, cart[p], now)
           /\ status' = [status EXCEPT ![s] = "active"]
           /\ owner' = [owner EXCEPT ![s] = p]
           /\ nextRenewalAt' = [nextRenewalAt EXCEPT ![s] = Later(p, cart[p], now) - Lead]
           /\ charges' = [charges EXCEPT ![s] = 1]
  <2>1. Promise!Pay(p, now + Days) /\ paid'[p] = Later(p, cart[p], now)
    BY Zenon, <1>1, <1>2, SaleIsPaid
  <2>2. \A z \in Subs : owner[z] = p => status[z] # "active"
    BY Zenon, <1>2 DEF Subscribed
  <2>3. status[s] = "absent" /\ UNCHANGED <<now, alerts>>
    BY Zenon DEF CreateSubscription
  <2>4. nextRenewalAt' = [nextRenewalAt EXCEPT ![s] = paid'[p] - Lead]
    BY Zenon, <1>2, <2>1
  <2>5. Promise!Enrol(p, s)
    BY ONLY Zenon, <1>2, <2>1, <2>2, <2>3, <2>4 DEF Promise!Enrol
  <2> QED BY Zenon, <2>5 DEF Promise!Next
<1>3. CASE UNCHANGED <<player, paid, status, owner, nextRenewalAt, firstAt, charges, steady>>
  BY Zenon, <1>3, HiddenSteps DEF CreateSubscription, promised
<1> QED BY Zenon, <1>2, <1>3 DEF CreateSubscription

\* A renewal bills what is active and due now, although the pass has read it
\* before, and its player is covered until the next bill.
LEMMA ChargeKeepsPromise ==
    ASSUME Types, PassInv, NEW w \in Renewers, NEW d \in due[w], ChargeRenewal(w, d)
    PROVE  [Promise!Next]_(Promise!vars)
<1> DEFINE s == d.sub
           p == owner[s]
           refused == d.role \in panel \/ Plan(p, d.role) # "ok"
<1>1. /\ s \in Subs /\ d.role \in TierRoles /\ d.dueAt \in Nat
      /\ p \in Players /\ passNow[w] \in Nat /\ GrantTypeOK
  BY Zenon, RowOfPass DEF Types, TypeOK
<1>2. CASE /\ ~ refused /\ StillDue(d) /\ ApplyVipGrant(p, d.role, passNow[w])
           /\ nextRenewalAt' = [nextRenewalAt EXCEPT ![s] = d.dueAt + Days]
           /\ charges' = [charges EXCEPT ![s] = @ + 1]
  <2>1. status[s] = "active" /\ nextRenewalAt[s] = d.dueAt
    BY Zenon, <1>2 DEF StillDue
  <2>2. d.dueAt <= passNow[w] /\ passNow[w] <= now
    BY Zenon DEF PassInv
  <2>3. now \in Nat
    <3>1. now \in 1..MaxTime /\ MaxTime \in Nat
      BY Zenon, GrantAssumption DEF Types, TypeOK, GrantTypeOK
    <3> QED BY ONLY SMT, <3>1
  <2>4. d.dueAt <= now /\ d.dueAt + Days \in Nat /\ d.dueAt + Days <= passNow[w] + Days
    <3>1. d.dueAt \in Nat /\ passNow[w] \in Nat /\ Days \in Nat
      BY Zenon, <1>1, GrantAssumption
    <3> QED BY ONLY SMT, <2>2, <2>3, <3>1
  <2>5. Promise!Pay(p, d.dueAt + Days)
    BY Zenon, <1>1, <1>2, <2>4, SaleIsPaid
  <2>6. UNCHANGED <<now, status, owner, alerts>>
    BY Zenon DEF ChargeRenewal
  <2>7. Promise!Bill(s)
    BY ONLY Zenon, <1>2, <2>1, <2>4, <2>5, <2>6 DEF Promise!Bill
  <2> QED BY Zenon, <1>1, <2>7 DEF Promise!Next
<1>3. CASE UNCHANGED <<player, paid, nextRenewalAt, charges>>
  BY Zenon, <1>3, HiddenSteps DEF ChargeRenewal, promised
<1> QED BY Zenon, <1>2, <1>3 DEF ChargeRenewal

LEMMA PromiseNext ==
    ASSUME Types, AnnounceInv, PassInv, [Next]_vars
    PROVE  [Promise!Next]_(Promise!vars)
<1>1. ASSUME NEW s \in Subs, CancelSubscription(s) PROVE [Promise!Next]_(Promise!vars)
  <2>1. Promise!End(s)
    BY Zenon, <1>1 DEF CancelSubscription, Promise!End, Promise!account
  <2> QED BY Zenon, <2>1 DEF Promise!Next
<1>2. ASSUME NEW w \in Renewers, NEW d \in due[w], ExpireSubscription(w, d)
      PROVE  [Promise!Next]_(Promise!vars)
  <2>1. d.sub \in Subs
    BY Zenon, RowOfPass
  <2>2. CASE status[d.sub] = "active" /\ status' = [status EXCEPT ![d.sub] = "expired"]
    <3>1. Promise!End(d.sub)
      BY Zenon, <1>2, <2>2 DEF ExpireSubscription, Promise!End, Promise!account
    <3> QED BY Zenon, <2>1, <3>1 DEF Promise!Next
  <2>3. CASE UNCHANGED status
    BY Zenon, <1>2, <2>3, HiddenSteps DEF ExpireSubscription, promised
  <2> QED BY Zenon, <1>2, <2>2, <2>3 DEF ExpireSubscription
<1>3. ASSUME NEW w \in Renewers, NEW d \in due[w], NotifyExpired(w, d)
      PROVE  [Promise!Next]_(Promise!vars)
  <2>1. d.sub \in Subs
    BY Zenon, RowOfPass
  <2>2. status[d.sub] = "expired" /\ alerts[d.sub] = 0
    BY Zenon, <1>3 DEF AnnounceInv, ToAnnounce, NotifyExpired
  <2>3. alerts' = [alerts EXCEPT ![d.sub] = 1]
    <3>1. alerts' = [alerts EXCEPT ![d.sub] = alerts[d.sub] + 1]
      BY ONLY Zenon, <1>3 DEF NotifyExpired
    <3>2. alerts[d.sub] + 1 = 1
      BY ONLY SMT, <2>2
    <3> QED BY Zenon, <3>1, <3>2
  <2>4. Promise!Announce(d.sub)
    BY Zenon, <1>3, <2>2, <2>3 DEF NotifyExpired, Promise!Announce, Promise!account
  <2> QED BY Zenon, <2>1, <2>4 DEF Promise!Next
<1>4. ASSUME NEW w \in Renewers, FindDue(w) \/ \E d \in due[w] : RowFails(w, d) PROVE UNCHANGED promised
  BY Zenon, <1>4 DEF FindDue, RowFails, promised
<1>5. ASSUME NEW x \in Expirers, ExpiryStep(x) PROVE UNCHANGED promised
  BY Zenon, <1>5 DEF ExpiryStep, FindExpired, ClearExpired, promised
<1>6. CASE WorkerCrash \/ UNCHANGED vars
  BY Zenon, <1>6, HiddenSteps DEF WorkerCrash, vars, promised
<1> QED
  BY Zenon, <1>1, <1>2, <1>3, <1>4, <1>5, <1>6, HiddenSteps, GrantKeepsPromise, CreateKeepsPromise,
     ChargeKeepsPromise DEF Next, GrantStep, RenewalStep

\* Renewal passes that overlap, fail and work from what they read long ago are,
\* to the player, the billing that VipPromise describes.
THEOREM SubscriptionsKeepPromise == Spec => BillingKeepsPromise
<1>1. Init => Promise!Init
  BY Zenon DEF Init, GrantInit, Null, Promise!Init
<1>2. Init => AnnounceInv /\ PassInv
  BY DEF Init, AnnounceInv, AnnouncedOnce, ToAnnounce, PassInv
<1>3. Types /\ AnnounceInv /\ PassInv /\ [Next]_vars => Types' /\ AnnounceInv' /\ PassInv'
  BY Zenon, StepTypes, AnnounceStep, PassStep
<1>4. Types /\ AnnounceInv /\ PassInv /\ [Next]_vars => [Promise!Next]_(Promise!vars)
  BY Zenon, PromiseNext
<1> QED
  BY InitTypes, <1>1, <1>2, <1>3, <1>4, PTL DEF Spec, BillingKeepsPromise, Promise!Spec
===============================================================================
