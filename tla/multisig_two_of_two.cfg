CONSTANTS
    c1 = c1
    c2 = c2
    c3 = c3
    alice = alice
    bob = bob
    q1 = q1
    q2 = q2
    NoRequest = NoRequest
    Requests = {q1, q2}
    Calls = {c1, c2, c3}
    caller <- AliceTwice
    target <- AllAboutOne
    Runs = {s1}
SPECIFICATION Spec
INVARIANT TwoOfTwo
