CONSTANTS
    WeeklyQuota = 2
    LastWeek = 3
    MaxUsed = 4
SPECIFICATION Spec
INVARIANTS TypeOK FreeQuotaRespected LockedWhileRunning
PROPERTY OnlyNetworkHangs
