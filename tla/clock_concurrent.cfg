SPECIFICATION Spec
CONSTANTS
    c1 = c1
    c2 = c2
    e1 = e1
    e2 = e2
    Company = {c1, c2}
    Employee = {e1}
    EmployerOf <- OneCompany
    Code = {t1, t2}
    Entry = {n1, n2}
    ScanReq = {s1, s2}
    GenReq = {g1, g2}
    EditReq = {p1}
    Bodies <- AllBodies
    Null = Null
    Keep = Keep
    Serial = FALSE
    MaxTime = 2
    QrTtl = 1
SYMMETRY ConcurrentSymmetry
INVARIANTS
    TypeOK
    SupersededCodeIsDead
    OpenEntriesOverlap
    StampsInOrder
    PunchesUseLiveCodes
PROPERTIES
    OnlyOverlapsOverwrite
CHECK_DEADLOCK FALSE
