CONSTANTS
    p1 = p1
    p2 = p2
    NoActor = NoActor
    NonPlayer = NonPlayer
    Players <- MCStorePlayers
    Tribes <- MCTribes
    RandTeams <- MCRandTeams
    PVETribes <- MCPVETribes
    WildTeams <- MCWildTeams
    HoursOfProtection = 1
    MaxLevel = 2
    PlayerUpdateIntervalInMins = 1
    MessageIntervalInSecs = 1
    IgnoreAdmins = TRUE
    AllowNewPlayersToDamageEnemyStructures = FALSE
    AllowWildDinoDamage = TRUE
    AllowWildCorruptedDinoDamage = TRUE
    MaxTime = 2
    MaxCrashes = 1
    DamageEvents <- MCStoreDamageEvents
SPECIFICATION StoreSpec
INVARIANT SavedStateHonoured
