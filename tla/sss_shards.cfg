CONSTANTS
    a = a
    b = b
    Wallets = {a, b}
    Threshold = 2
    Total = 3
    MaxLines = 2
    MaxList = 3
    None = None
SPECIFICATION Spec
SYMMETRY SymmetricWallets
INVARIANT RegisteredIsBackedUp
INVARIANT KeyIsTheWallets
CHECK_DEADLOCK FALSE
