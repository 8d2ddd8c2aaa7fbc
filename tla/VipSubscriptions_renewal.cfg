SPECIFICATION Spec
CONSTANTS
    Players = {p1}
    TierRoles = {vip, gold}
    OtherRoles = {}
    RewardRole = seeder
    NoRole = NoRole
    NoPlayer = NoPlayer
    Price = 1
    Days = 2
    Terms = {0, 1}
    Lead = 1
    Grace = 2
    Bonuses = 2
    Subs = {1, 2}
    Renewers = {w1, w2}
    Expirers = {x1}
    MaxTime = 5
    MaxEdits = 1
    MaxFaults = 1
INVARIANTS
    TypeOK
    ChargedOncePerPeriod
    PaidRoleKept
    ActiveHoldsRole
    AnnouncedOnce
PROPERTY BillingKeepsPromise
SYMMETRY Symmetry
CHECK_DEADLOCK FALSE
