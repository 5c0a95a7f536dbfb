\* Pipes of one unit, inputs and outputs of two: every pipe can be full.
CONSTANTS
    PipeCap = 1
    InputLen = 2
    MaxOut = 2
    MaxErr = 2
SPECIFICATION RunFairSpec
INVARIANTS RunTypeOK KillsSound ReturnHonest
PROPERTY RunEnds
