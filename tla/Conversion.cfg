\* Four callers share two slots.
CONSTANTS
    Callers = {c1, c2, c3, c4}
    Limit = 2
    Threshold = 2
    Cooldown = 1
SPECIFICATION FairSpec
INVARIANTS TypeOK CountsExact NoLostWakeup
PROPERTIES OnlyFaultsCount ProbeResolves
