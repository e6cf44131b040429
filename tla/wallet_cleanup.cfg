CONSTANTS
    k1 = k1
    k2 = k2
    demo = demo
    old = old
    odd = odd
    test = test
    ann = ann
    s1 = s1
    s2 = s2
    m1 = m1
    m2 = m2
    Calls = {k1, k2}
    Accounts = {s1, s2}
    Users = {test, ann}
    Seeds = {demo, old, odd}
    user <- User
    seedType <- SeedType
    seedAddress <- SeedAddress
    seedSealed <- SeedSealed
    Masters = {m1, m2}
    Nobody = Nobody
    Protected = {test}
    Busy = {ann}
    MaxChoices = 1
SPECIFICATION Spec
SYMMETRY SymmetricCalls
INVARIANT DanglingDefaultIsFresh
INVARIANT StrayVaultsAreReported
INVARIANT SignerOwnsWallet
PROPERTY CleanupSpares
CHECK_DEADLOCK FALSE
