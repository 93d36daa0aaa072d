CONSTANTS
    Disallowed = {"SystemProgram", "TokenProgram"}
    Others = {"Phoenix", "Unknown"}
    NoKey = NoKey
    AccountCounts = {4, 6, 8, 9, 11, 13, 16, 17, 18}
    Transactions <- AllTransactions
SPECIFICATION Spec
INVARIANTS
    TypeOK
    OutputIsPerInstruction
    RoutesAreLegs
    OnlySwapsFail
    OnlyMisreadsPanic
