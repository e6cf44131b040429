CONSTANTS
    r1 = r1
    r2 = r2
    w1 = w1
    w2 = w2
    NoJob = NoJob
    Requests = {r1}
    Workers = {w1, w2}
    walletType <- OneBackend
    MaxAttempts = 3
    Faults = {"lost"}
SPECIFICATION Spec
INVARIANT AtMostOneTransfer
