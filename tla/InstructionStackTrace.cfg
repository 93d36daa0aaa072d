CONSTANTS
    NoHeight = NoHeight
    RootIndex = 1
    U8Max = 255
    MaxLen = 5
    MaxHeight = 4
    HeightSeqs <- AllHeights
SPECIFICATION Spec
INVARIANT
    TraceFindsOwnPath
