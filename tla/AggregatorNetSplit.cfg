CONSTANTS
    A = A
    B = B
    C = C
    NoMint = NoMint
    Mints <- Abc
    MaxAmount = 3
    MaxU64 = 65535
    DustBps = 1
    BpsScale = 10
    RouteLists <- AllRoutes
    AnnouncedRoutes <- DecodedRoutes
SPECIFICATION NetSpec
INVARIANT
    SplitNetIsWalletChange
