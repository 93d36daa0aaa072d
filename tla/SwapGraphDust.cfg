CONSTANTS
    A = A
    B = B
    C = C
    Mints <- ThreeMints
    MaxU64 = 15
    DustBps = 2
    BpsScale = 8
    ShortAmounts = {1, 9}
    LongAmounts = {}
    Routes <- AllRoutes
SPECIFICATION Spec
INVARIANT
    DustIsRelative
