CONSTANTS
    r1 = r1
    r2 = r2
    w1 = w1
    s1 = s1
    s2 = s2
    NoJob = NoJob
    Requests = {r1, r2}
    Workers = {w1}
    Settlers = {s1, s2}
    walletType <- AllMpc
    MaxAttempts = 1
    BatchSize = 1
    Faults = {"reject", "crash"}
SPECIFICATION SettlementFairSpec
INVARIANT ReportsAgree
INVARIANT OutcomesAreTrue
PROPERTY SettlementImplementsLifecycle
PROPERTY EventuallyFinal
