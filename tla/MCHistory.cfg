\* One command process beside the daemon; a cap of one, so that pinned rows lie
\* beyond it, and one that is negative as an i64; texts that differ from a keyword
\* by case, by a tag or by a line end, one of them cut inside it.
CONSTANTS
    CdcMin = 2  CdcAvg = 4  CdcMax = 6
    StrictBits = 3  LooseBits = 1  WordBits = 4
    Gear <- MCGear
    Fold <- MCFold
    AnyOne = 3  AnyRun = 4  Open = 5  Close = 6  Newline = 7  Space = 8
    Clis = {c}
    photo = photo
    Texts <- Rich
    Markup <- Tagged
    Images = {photo}
    Keywords <- Words
    PreviewChars = 2
    DefaultLimit = 2
    DefaultMaxHistory = 1
    IntBits = 3
    None = None
    Envs = {None, 0, 1}
    Numbers = {0, 5}
    MaxRowId = 3
    MaxTime = 1
SPECIFICATION Spec
CHECK_DEADLOCK FALSE
INVARIANTS TypeOK ActsOnMeant
PROPERTIES KeepsUpToCap ListingExact
