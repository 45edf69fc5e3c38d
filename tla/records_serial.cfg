SPECIFICATION Spec
CONSTANTS
    hourly = hourly
    monthly = monthly
    d1 = d1
    d2 = d2
    Employee = {e1}
    Date = {d1, d2}
    RateType = {hourly, monthly}
    Amount = {1, 2}
    PatchReq = {p1, p2}
    OffReq = {x1}
    Null = Null
    Keep = Keep
    Bodies <- MCBodies
    Plans <- MCPlans
    Serial = TRUE
    MaxWrites = 4
PROPERTIES
    AnsweredPatchHolds
    ImplementsRoster
CHECK_DEADLOCK FALSE
