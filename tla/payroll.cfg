SPECIFICATION Spec
CONSTANTS
    Employee = {e1}
    Adj = {a1, a2}
    PayReq = {q1}
    AmendReq = {m1}
    Null = Null
    Keep = Keep
    FirstDay = 3
    LastDay = 4
    DaysPerMonth = 2
    Plans <- MCPlans
    NewAdjs <- MCNewAdjs
    Patches <- MCPatches
    Asked = {1}
    WhatIfs <- MCWhatIfs
SYMMETRY PayrollSymmetry
INVARIANTS
    TypeOK
    BaseIsTheMonths
    UnamendedCountOnce
    PastStaysPaid
CHECK_DEADLOCK FALSE
