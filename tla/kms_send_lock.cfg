CONSTANTS
    p1 = p1
    p2 = p2
    a1 = a1
    a2 = a2
    b1 = b1
    b2 = b2
    Processes = {p1, p2}
    Conns = {a1, a2, b1, b2}
    pool <- TwoEach
    Faults = {"crash", "drop", "lost", "db", "kms"}
    CurveOrder = 5
    MaxHeld = 2
    MaxNonce = 2
SPECIFICATION Spec
SYMMETRY Symmetric
INVARIANT OneSender
INVARIANT NonceIsFresh
INVARIANT SignatureIsCanonical
INVARIANT IdleHoldsNothing
CHECK_DEADLOCK FALSE
