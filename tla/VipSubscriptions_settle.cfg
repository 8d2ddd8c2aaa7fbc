SPECIFICATION FairSpec
CONSTANTS
    Players = {p1}
    TierRoles = {vip, gold}
    OtherRoles = {}
    RewardRole = seeder
    NoRole = NoRole
    NoPlayer = NoPlayer
    Price = 1
    Days = 2
    Terms = {0, 1}
    Lead = 1
    Grace = 2
    Bonuses = 2
    Subs = {1}
    Renewers = {w1}
    Expirers = {x1}
    MaxTime = 5
    MaxEdits = 1
    MaxFaults = 1
PROPERTIES
    DueIsSettled
    ExpiredRoleIsTaken
CHECK_DEADLOCK FALSE
