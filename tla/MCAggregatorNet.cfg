CONSTANTS
    A = A
    B = B
    C = C
    NoMint = NoMint
    Mints <- Abc
    MaxAmount = 3
    MaxU64 = 65535
    DustBps = 5
    BpsScale = 10
    RouteLists <- AllRoutes
    AnnouncedRoutes <- DecodedRoutes
SPECIFICATION NetSpec
INVARIANTS
    TypeOK
    DirectionsHaveWitness
    StuckLegsAreDisconnected
    ChainRecovered
    NetSwapIsExecuted
    NetSwapIsWalletChange
