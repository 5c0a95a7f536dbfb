\* Streams of nothing up to beyond the limit, through every split of every call;
\* then two pastes while the row is deleted and its file written again.
CONSTANTS
    Limit = 3
    MaxStream = 5
    Inline = 1
    Round = 2
    Chunk = 1
    PipeCap = 3
    Clients = {c1, c2}
    Tags = {2}
    MaxFiles = 2
SPECIFICATION ESpec
INVARIANTS TypeOK ServedIntact
PROPERTIES KeepsWhole TransfersEnd
CHECK_DEADLOCK FALSE
