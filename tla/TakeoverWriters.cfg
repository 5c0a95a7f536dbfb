\* One daemon runs, a second one is started.
SPECIFICATION FairSpec
CONSTANTS
    Daemons = {d1, d2}
    Clients = {}
    None = None
PROPERTY
    OneWriterRemains
CHECK_DEADLOCK FALSE
