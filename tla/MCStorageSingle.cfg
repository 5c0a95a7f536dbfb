\* The daemon is the only writer; it may crash and its calls may fail.
CONSTANTS
    text = text  icon = icon  photo = photo  x = x  y = y
    Workers = {w}
    Clis = {}
    Payloads = {text, icon, photo}
    FormsOf <- MCForms
    Chunks = {x, y}
    ChunksOf <- MCChunks
    MaxHistory = 1
    MaxRowId = 4
    MaxTime = 2
    Faults = {"busy", "adopt", "write", "crash"}
    None = None
SPECIFICATION Spec
CHECK_DEADLOCK FALSE
INVARIANT FilesMatchRows
