SPECIFICATION Spec
CONSTANTS
    Content <- TimingContent
    Configs <- TimingConfigs
    Chunks <- TimingChunks
    IntBits = 6
    Mantissa = 4
    SSELimit = 3
    MaxJSON = 5
    MaxBody <- MCMaxBody
INVARIANT
    TimingsNotNegative
