SPECIFICATION Spec
CONSTANTS
    ann = ann
    bob = bob
    env = env
    other = other
    none = none
    Users <- MCUsers
    SeedList <- MCSeedList
    GroupRoles <- MCGroupRoles
    Levels <- MCLevels
    DefaultLevel = 240
    NoValue = none
    EnvValue = env
    Values <- MCValues
    Modules <- MCModules
    MaxEdits = 4
    MaxTroubles = 2
    MaxQueue = 2
INVARIANTS
    AlwaysASuper
    TakenBackStands
CHECK_DEADLOCK FALSE
