------------------------------- MODULE VipGrants -------------------------------
(***************************************************************************)
(* The bonus balance and the timed role of a player, and whatever changes  *)
(* them besides the role-expirer worker: the sale of a VIP tier, bonus     *)
(* adjustments, the administrators who assign roles and edit the catalogue *)
(* and the daily seed-reward reconciliation.                               *)
(*                                                                         *)
(* The catalogue is one tier with one price and one period; only the role  *)
(* it maps to is edited.  A database transaction locks the player's row    *)
(* before it decides, and is one step.                                     *)
(***************************************************************************)
EXTENDS Integers, FiniteSets

CONSTANTS
    Players,
    TierRoles,      \* roles the tier may be pointed at
    OtherRoles,     \* the other roles an administrator may assign
    RewardRole,     \* economy_settings.seed_reward_role_id
    NoRole,         \* players.role_id IS NULL
    Price,          \* vip_tiers.price_bonuses
    Days,           \* vip_tiers.default_days, in units of the clock
    Terms,          \* for how long an administrator assigns a role, 0 for good
    MaxTime,        \* bound: the clock stops here
    Bonuses,        \* the bonuses a player starts with
    MaxEdits        \* bound: what administrators and seeders do

Roles == TierRoles \cup OtherRoles \cup {RewardRole}

ASSUME GrantAssumption ==
    /\ NoRole \notin Roles
    /\ Price \in Nat /\ Days \in Nat \ {0}
    /\ Terms \subseteq Nat
    /\ MaxTime \in Nat \ {0} /\ Bonuses \in Nat /\ MaxEdits \in Nat

Null == 0           \* a timestamp that is NULL; the clock starts at 1

VARIABLES
    now,            \* the clock every process reads
    tierRole,       \* vip_tiers.role_id
    panel,          \* roles that now open the panel
    balance,        \* players.bonus_balance
    role,           \* players.role_id
    roleExpiresAt,  \* players.role_expires_at
    cart,           \* the role that resolveTier read for a request in flight
    qualifies,      \* players whose seed time reaches the reward's threshold
    snapshot,       \* the players seed-reward has decided to change, with the role it read
    edits,          \* edits so far
    paid,           \* history: until when the role held has been paid for
    steady          \* history: players whose role nobody but the tier's sale and its expiry touched

player    == <<balance, role, roleExpiresAt>>
catalogue == <<tierRole, panel>>
seeding   == <<qualifies, snapshot>>
history   == <<paid, steady>>

Changes == [player : Players, role : {NoRole, RewardRole}]

GrantTypeOK ==
    /\ now \in 1..MaxTime
    /\ tierRole \in TierRoles
    /\ panel \subseteq Roles
    /\ balance \in [Players -> Nat]
    /\ role \in [Players -> Roles \cup {NoRole}]
    /\ roleExpiresAt \in [Players -> Nat]
    /\ cart \in [Players -> TierRoles \cup {NoRole}]
    /\ qualifies \subseteq Players
    /\ snapshot \subseteq Changes
    /\ edits \in 0..MaxEdits
    /\ paid \in [Players -> Nat]
    /\ steady \subseteq Players

GrantInit ==
    /\ now = 1
    /\ tierRole \in TierRoles
    /\ panel = {}
    /\ balance = [p \in Players |-> Bonuses]
    /\ role = [p \in Players |-> NoRole]
    /\ roleExpiresAt = [p \in Players |-> Null]
    /\ cart = [p \in Players |-> NoRole]
    /\ qualifies = {}
    /\ snapshot = {}
    /\ edits = 0
    /\ paid = [p \in Players |-> Null]
    /\ steady = {}

-----------------------------------------------------------------------------
(* The sale of a period *)

\* Mutant of Plan: the balance is not looked at.
PlanOnCredit(p, r) ==
    IF role[p] \notin {NoRole, r} THEN "role_conflict"
    ELSE IF role[p] = r /\ roleExpiresAt[p] = Null THEN "role_permanent"
    ELSE "ok"

\* planVipGrant: whether the role can be sold to the player.
Plan(p, r) ==
    IF balance[p] < Price THEN "insufficient_balance"
    ELSE IF role[p] \notin {NoRole, r} THEN "role_conflict"
    ELSE IF role[p] = r /\ roleExpiresAt[p] = Null THEN "role_permanent"
    ELSE "ok"

\* Its roleExpiresAt: a role that has not expired is extended from its expiry.
Later(p, r, t) ==
    (IF role[p] = r /\ roleExpiresAt[p] > t THEN roleExpiresAt[p] ELSE t) + Days

\* applyVipGrant, when the plan is ok: the ledger row, the balance and the role.
ApplyVipGrant(p, r, t) ==
    /\ balance' = [balance EXCEPT ![p] = @ - Price]
    /\ role' = [role EXCEPT ![p] = r]
    /\ roleExpiresAt' = [roleExpiresAt EXCEPT ![p] = Later(p, r, t)]
    /\ paid' = [paid EXCEPT ![p] = Later(p, r, t)]

\* resolveTier, before the transaction of a purchase or of a subscription.
ResolveTier(p) ==
    /\ cart[p] = NoRole /\ tierRole \notin panel
    /\ cart' = [cart EXCEPT ![p] = tierRole]
    /\ UNCHANGED <<now, catalogue, player, seeding, edits, history>>

\* POST /me/purchases and the privilege shop: one period, refused or sold.
Purchase(p) ==
    /\ cart[p] # NoRole
    /\ \/ Plan(p, cart[p]) = "ok" /\ ApplyVipGrant(p, cart[p], now)
       \/ Plan(p, cart[p]) # "ok" /\ UNCHANGED <<player, paid>>
    /\ cart' = [cart EXCEPT ![p] = NoRole]
    /\ UNCHANGED <<now, catalogue, seeding, edits, steady>>

-----------------------------------------------------------------------------
(* Administrators *)

Edit == edits < MaxEdits /\ edits' = edits + 1

\* POST /players/:id/bonus-adjustments, and the daily accrual.
AdjustBonus(p, amount) ==
    /\ Edit
    /\ balance[p] + amount >= 0
    /\ balance' = [balance EXCEPT ![p] = @ + amount]
    /\ UNCHANGED <<now, catalogue, role, roleExpiresAt, cart, seeding, history>>

\* PUT and DELETE /players/:id/role.  An expiry must lie in the future.
AssignRole(p, r, term) ==
    /\ Edit
    /\ r = NoRole => term = 0
    /\ role' = [role EXCEPT ![p] = r]
    /\ roleExpiresAt' = [roleExpiresAt EXCEPT ![p] = IF term = 0 THEN Null ELSE now + term]
    /\ paid' = [paid EXCEPT ![p] = Null]
    /\ steady' = steady \ {p}
    /\ UNCHANGED <<now, catalogue, balance, cart, seeding>>

\* PUT /vip-tiers/:id.
UpdateTier(r) ==
    /\ Edit
    /\ r \notin panel
    /\ tierRole' = r
    /\ steady' = IF r = tierRole THEN steady ELSE {}
    /\ UNCHANGED <<now, panel, player, cart, seeding, paid>>

\* PUT /roles/:id gives a role access to the panel, or takes it away.  The role
\* Owner, which nobody edits, assigns or sells, is not among Roles.
UpdateRole(r, panelAccess) ==
    /\ Edit
    /\ panel' = IF panelAccess THEN panel \cup {r} ELSE panel \ {r}
    /\ UNCHANGED <<now, tierRole, player, cart, seeding, history>>

-----------------------------------------------------------------------------
(* worker-seed-reward *)

\* A day of seeding, or one that leaves the window of thirty.
SeedTimeChanges(p) ==
    /\ Edit
    /\ qualifies' = IF p \in qualifies THEN qualifies \ {p} ELSE qualifies \cup {p}
    /\ UNCHANGED <<now, catalogue, player, cart, snapshot, history>>

\* reconcileSeedRewardAssignments reads every player and decides.
SeedSnapshot ==
    /\ snapshot = {}
    /\ snapshot' = {c \in Changes : /\ c.role = role[c.player]
                                    /\ (c.player \in qualifies) <=> (c.role = NoRole)}
    /\ snapshot' # {}
    /\ RewardRole \notin panel
    /\ UNCHANGED <<now, catalogue, player, cart, qualifies, edits, history>>

\* The update's condition: the player still has the role the snapshot saw.
Unchanged(p, r) == [player |-> p, role |-> r] \in snapshot /\ role[p] = r

\* It updates the players that are as the snapshot saw them.
SeedReconcile ==
    /\ snapshot # {}
    /\ LET granted == {p \in Players : Unchanged(p, NoRole)}
           revoked == {p \in Players : Unchanged(p, RewardRole)}
       IN  /\ role' = [p \in Players |-> IF p \in granted THEN RewardRole
                                         ELSE IF p \in revoked THEN NoRole ELSE role[p]]
           /\ roleExpiresAt' = [p \in Players |->
                                  IF p \in granted \cup revoked THEN Null ELSE roleExpiresAt[p]]
    /\ snapshot' = {}
    /\ UNCHANGED <<now, catalogue, balance, cart, qualifies, edits, history>>

-----------------------------------------------------------------------------

\* Time passes.
Clock ==
    /\ now < MaxTime
    /\ now' = now + 1
    /\ UNCHANGED <<catalogue, player, cart, seeding, edits, history>>

GrantNext ==
    \/ \E p \in Players :
          \/ ResolveTier(p) \/ Purchase(p) \/ SeedTimeChanges(p)
          \/ \E amount \in {-Price, Price} : AdjustBonus(p, amount)
          \/ \E r \in Roles \cup {NoRole}, term \in Terms : AssignRole(p, r, term)
    \/ \E r \in TierRoles : UpdateTier(r)
    \/ \E r \in Roles, access \in BOOLEAN : UpdateRole(r, access)
    \/ SeedSnapshot \/ SeedReconcile
    \/ Clock
================================================================================
