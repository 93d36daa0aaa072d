CONSTANTS
    User = User
    Pool = Pool
    Wallets <- UserAndPool
    Payer = User
    OffCurve <- JustPool
    Fee = 1
    Rent = 2
    Amounts = {1, 3}
    Lamports = 6
    Held = 3
    MaxSteps = 3
SPECIFICATION Spec
INVARIANT
    FeeIsNoPartOfSwap
