\* Three processes on three pids: one dies and leaves debris, two start at once.
CONSTANTS
    Procs = {p1, p2, p3}
    Pids = {i1, i2, i3}
    MaxSeq = 1
    Tries = 1
SPECIFICATION Spec
SYMMETRY Symmetry
INVARIANTS TypeOK OpenIsSafe NamesAreSafe
CHECK_DEADLOCK FALSE
