CONSTANTS
    r1 = r1
    r2 = r2
    w1 = w1
    w2 = w2
    NoJob = NoJob
    Requests = {r1, r2}
    Workers = {w1, w2}
    walletType <- BackendAndMpc
    MaxAttempts = 3
    Faults = {"reject", "crash"}
SPECIFICATION HistorySpec
INVARIANT AtMostOneTransfer
INVARIANT FailureIsUnpaid
INVARIANT SucceededRowMatches
PROPERTY ImplementsLifecycle
PROPERTY EventuallySettled
