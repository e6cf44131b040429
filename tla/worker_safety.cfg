CONSTANTS
    r1 = r1
    r2 = r2
    w1 = w1
    w2 = w2
    NoJob = NoJob
    Requests = {r1, r2}
    Workers = {w1, w2}
    walletType <- KmsAndSss
    MaxAttempts = 2
    Faults = {"reject", "lost", "db", "crash"}
SPECIFICATION FairSpec
INVARIANT ExclusiveExecution
INVARIANT TransfersBounded
INVARIANT SignedTransactionKept
PROPERTY FailedIsFinal
PROPERTY WorkerReleased
