SPECIFICATION Spec
CONSTANTS
    c1 = c1
    c2 = c2
    e1 = e1
    e2 = e2
    Company = {c1}
    Employee = {e1, e2}
    EmployerOf <- OneCompany
    Code = {t1, t2}
    Entry = {n1, n2}
    ScanReq = {s1, s2}
    GenReq = {g1}
    EditReq = {p1}
    Bodies <- ClosingBodies
    Null = Null
    Keep = Keep
    Serial = TRUE
    MaxTime = 2
    QrTtl = 1
SYMMETRY SerialSymmetry
INVARIANTS
    AtMostOneOpenEntry
    AtMostOneLiveCode
PROPERTIES
    ClosedEntriesAreFinal
    ImplementsClock
CHECK_DEADLOCK FALSE
