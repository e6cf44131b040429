CONSTANTS
    c1 = c1
    c2 = c2
    kms = kms
    sec = sec
    guard = guard
    mpc = mpc
    sss = sss
    multi = multi
    ann = ann
    bob = bob
    x1 = x1
    x2 = x2
    Calls = {c1, c2}
    Saves = {s1, s2}
    Wallets = {kms, sec, guard, mpc, sss, multi}
    Users = {ann, bob}
    walletType <- Types
    owner <- AllAnns
    Keys = {k1}
    NoKey = NoKey
    Addresses = {kms, sec, guard, mpc, sss, multi, x1, x2}
    Bodies <- SomeBodies
    Lists <- SomeLists
    Limits = {1}
    NoLimit = NoLimit
    Limited = {sec}
    OtpAmount = 2
    s1 = s1
    s2 = s2
    NoTx = NoTx
    MaxNonce = 1
    None = None
SPECIFICATION Spec
SYMMETRY Symmetric
INVARIANT SameKeyOneRequest
INVARIANT PolicyKept
PROPERTY ImplementsSubmission
CHECK_DEADLOCK FALSE
