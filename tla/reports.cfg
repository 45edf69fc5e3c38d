SPECIFICATION Spec
CONSTANTS
    Employee = {e1, e2}
    Company = {c1, c2}
    Report = {r1}
    Absent = Absent
    Amounts = {0, 1}
    MaxWrites = 2
SYMMETRY Symmetry
INVARIANTS
    TypeOK
    UntouchedAreExact
    PartsInOrder
CHECK_DEADLOCK FALSE
