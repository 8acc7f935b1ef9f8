SPECIFICATION Spec
CONSTANTS
    Blank = Blank
    Nobody = Nobody
    a1 = a1
    m1 = m1
    m2 = m2
    k1 = k1
    k2 = k2
    n1 = n1
    n2 = n2
    r1 = r1
    r2 = r2
    Adapters = {a1}
    Phones = {m1}
    Keys = {k1}
    Numbers = {n1, n2}
    Nonces = {1, 2}
    Requests = {r1, r2}
    Faults = {"disk", "crash"}
    Edited = {}
    Jobs = {"enroll", "verification", "config"}
SYMMETRY Symmetry
INVARIANTS
    DIDIsVerified
    CachedNumberIsVerified
