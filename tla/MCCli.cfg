CONSTANTS
    Payer = Payer
    Pool = Pool
    Vault = Vault
    Program = Program
    A = A
    B = B
    C = C
    NoKey = NoKey
    NoMint = NoMint
    Keys <- SomeKeys
    Mints <- SomeMints
    MaxDecimals = 19
    SignatureLists <- Lists
    ArgSets <- SomeArgs
    MintAccounts <- SomeMintAccounts
    MetaAccounts <- SomeMetaAccounts
SPECIFICATION FairSpec
INVARIANTS
    CliTypeOK
    ReadAsExecuted
    EachSignatureAlone
    ShownAsOnChain
PROPERTIES
    AllAnswered
