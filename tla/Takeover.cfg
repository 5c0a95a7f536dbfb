\* Three start-ups and a command, interrupted, hung up on and killed.
CONSTANTS
    Daemons = {d1, d2, d3}
    Clients = {c1}
    None = None
SPECIFICATION FairSpec
INVARIANTS TypeOK StaleSocketNeverBlocks
PROPERTY CommandsResolve
CHECK_DEADLOCK FALSE
