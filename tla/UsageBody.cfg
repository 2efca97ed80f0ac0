SPECIFICATION Spec
CONSTANTS
    Content <- MCContent
    Configs <- MCConfigs
    Chunks <- MCChunks
    IntBits = 6
    Mantissa = 4
    SSELimit = 3
    MaxJSON = 5
    MaxBody <- MCMaxBody
INVARIANTS
    BuffersBounded
    CapacityBounded
    CallbacksOnce
    CompleteBodyReported
PROPERTY
    ReportsWholeBody
