\* Every order of a handler's calls within five instants.
SPECIFICATION Spec
CONSTANTS
    Codes = {0, 100, 101, 103, 200, 404, 1000}
    MaxTime = 5
INVARIANTS
    RecordedIsSent
    NothingBeforeFinal
    FirstByteBracketed
CHECK_DEADLOCK FALSE
