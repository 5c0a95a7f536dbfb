\* A daemon and a command write at once; the text and the photo share a chunk.
CONSTANTS
    text = text  icon = icon  photo = photo  x = x  y = y
    Workers = {w}
    Clis = {c}
    Payloads = {text, photo}
    FormsOf <- MCForms
    Chunks = {x, y}
    ChunksOf <- MCChunks
    MaxHistory = 1
    MaxRowId = 4
    MaxTime = 1
    Faults = {"busy", "clock"}
    None = None
SPECIFICATION Spec
CHECK_DEADLOCK FALSE
INVARIANTS TypeOK ChunksExact
PROPERTIES PinnedSurvives RotationFair
