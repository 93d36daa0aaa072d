CONSTANTS
    A = A
    B = B
    C = C
    Mints <- ThreeMints
    MaxU64 = 15
    DustBps = 2
    BpsScale = 8
    ShortAmounts = {1, 4, 9}
    LongAmounts = {3, 4}
    Routes <- AllRoutes
SPECIFICATION Spec
INVARIANTS
    TypeOK
    BalancesConserve
    NetInputIsLeastCapital
    DustStaysSmall
    RefusalIsReal
    NoPanicInRange
