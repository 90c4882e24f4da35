CONSTANTS
    m1 = m1
    m2 = m2
    c1 = c1
    c2 = c2
    w1 = w1
    w2 = w2
    Machines = {m1, m2}
    Codes = {c1, c2}
    Workers = {w1, w2}
    Past = 1
    Future = 1
    ReceiptTTL = 2
    MaxAhead = 1
    MaxBehind = 0
    MaxTime = 3
    MaxSigned = 1
SPECIFICATION Spec
SYMMETRY Interchangeable
CHECK_DEADLOCK FALSE
PROPERTIES ImplementsRegister OnceWhileAccepted
INVARIANTS OneHolder RevokedHoldsNothing
