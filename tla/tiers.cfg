SPECIFICATION Spec
CONSTANTS
    Tiers <- MCTiers
    Lag = 1
    MaxTime = 8
    MaxNumber = 4
    MaxRuns = 2
INVARIANTS
    TypeOK
    FirstAndLastContentKept
    SettledFreshKept
PROPERTY
    WindowsKeepFirst
CHECK_DEADLOCK FALSE
